---- MODULE Spec2Model ----
(***************************************************************************)
(* Model of the AES-GCM module of barthap/media-encryption-demo            *)
(* (modules/aes-crypto) and of the code that uses it.                      *)
(*                                                                         *)
(* The module has three backends: the web one (AesCryptoModule.web.ts,     *)
(* on SubtleCrypto), the Android one (EncryptionKey.kt / SealedData.kt /   *)
(* AesCryptoModule.kt, on javax.crypto) and the iOS one (part_003, on      *)
(* CryptoKit).  Every operation of the model takes the backend it runs on. *)
(*                                                                         *)
(* AES-GCM itself is the platform's.  It is modelled as an ideal AEAD:     *)
(* the ciphertext is the plaintext XOR a keystream that is a function of   *)
(* (key, nonce, position), and the tag is an unforgeable term over         *)
(* (key, nonce, aad, ciphertext), truncated to the tag length.             *)
(***************************************************************************)
EXTENDS Integers, Sequences, FiniteSets, TLC

VARIABLES backend, assertsOn, exactSize, key, sealed, wire, result, enc, origin, held,
          calls, ciphers, pair, download, upload, hosting, catching, probe

\* The state of the module's callers, and the state of the application.
moduleVars == <<backend, assertsOn, exactSize, key, sealed, wire, result, enc, origin, held,
                calls, ciphers, pair>>
appVars == <<download, upload, hosting, catching, probe>>
vars == <<moduleVars, appVars>>

(***************************************************************************)
(* Program constants.                                                      *)
(***************************************************************************)
IV_LENGTH == 12
TAG_LENGTH == 16
DEFAULT_IV_LENGTH == 12
DEFAULT_TAG_LENGTH == 16
KeySizes == {128, 192, 256}
\* SubtleCrypto's AES-GCM tag lengths, in bytes (32, 64, 96, 104, 112, 120, 128 bits).
WebTagLengths == {4, 8, 12, 13, 14, 15, 16}

(***************************************************************************)
(* Bounds of the model.                                                    *)
(***************************************************************************)
MaxLen == 1     \* longest plaintext / buffer the callers pass
MaxByte == 1    \* callers' data bytes are 0..MaxByte
MaxFill == 2    \* key material: a byte 1..MaxFill repeated
MaxRand == 0    \* the random source fills a nonce with a byte 0..MaxRand

Backends == {"web", "android", "ios"}

(***************************************************************************)
(* Bytes.  A data byte is [b |-> 0..255].  A byte of an authentication tag *)
(* is [mac |-> the authenticated input, i |-> its index, x |-> the bits of *)
(* it that were flipped since]: two tag bytes are equal only when they     *)
(* authenticate the same input.                                            *)
(***************************************************************************)
D(n) == [b |-> n]
IsData(x) == DOMAIN x = {"b"}
Repeat(n, v) == [i \in 1..n |-> D(v)]

RECURSIVE XorN(_, _, _)
XorN(a, c, n) ==
  IF n = 0 THEN 0
  ELSE (((a % 2) + (c % 2)) % 2) + 2 * XorN(a \div 2, c \div 2, n - 1)
Xor8(a, c) == XorN(a, c, 8)

RECURSIVE Pow2(_)
Pow2(j) == IF j = 0 THEN 1 ELSE 2 * Pow2(j - 1)

\* One bit of one byte flipped.
FlipByte(x, j) ==
  IF IsData(x) THEN D(Xor8(x.b, Pow2(j)))
  ELSE [x EXCEPT !.x = Xor8(x.x, Pow2(j))]

Take(s, n) == SubSeq(s, 1, IF n < Len(s) THEN n ELSE Len(s))
Drop(s, n) == SubSeq(s, (IF n < 0 THEN 0 ELSE n) + 1, Len(s))
TakeLast(s, n) == Drop(s, Len(s) - n)
DropLast(s, n) == Take(s, Len(s) - n)

SeqsUpTo(S, n) == UNION {[1..m -> S] : m \in 0..n}

(***************************************************************************)
(* SerializableInput: a typed-array view (Uint8Array) over an ArrayBuffer. *)
(* Its logical content is the bytes of the view.                           *)
(***************************************************************************)
View(buf, off, len) == [buffer |-> buf, byteOffset |-> off, length |-> len]
Whole(s) == View(s, 0, Len(s))
Content(v) == SubSeq(v.buffer, v.byteOffset + 1, v.byteOffset + v.length)

\* serializableInputBuffer (web): the ArrayBuffer under the view.
serializableInputBuffer(input) == input.buffer

\* What a native function receives for a Uint8Array argument: the view's bytes.
nativeBytes(input) == Content(input)

(***************************************************************************)
(* Outcomes of an operation.                                               *)
(***************************************************************************)
Ok(v) == [ok |-> TRUE, value |-> v, error |-> "none"]
Err(e) == [ok |-> FALSE, value |-> <<>>, error |-> e]

(***************************************************************************)
(* The platform's AES-GCM.                                                 *)
(***************************************************************************)
Digest(s) == [i \in 1..Len(s) |-> IF IsData(s[i]) THEN s[i].b ELSE -1]

\* The byte of s at position i, s repeated as often as needed.
Cyclic(s, i) == IF s = <<>> THEN 0 ELSE s[((i - 1) % Len(s)) + 1]

\* The keystream byte at position i under (key, nonce).
KeyStream(k, iv, i) ==
  ((17 * Cyclic(Digest(k), i)) + (29 * Cyclic(Digest(iv), i)) + (31 * i) + Len(k) + 5) % 256

GcmCtr(k, iv, s) ==
  [i \in 1..Len(s) |->
     IF IsData(s[i]) THEN D(Xor8(s[i].b, KeyStream(k, iv, i))) ELSE s[i]]

GcmTag(k, iv, aad, ct, t) ==
  LET input == <<Digest(k), Digest(iv), Digest(aad), Digest(ct)>>
  IN [i \in 1..t |-> [mac |-> input, i |-> i, x |-> 0]]

\* Authenticated encryption: ciphertext followed by the t-byte tag.
GcmSeal(k, iv, aad, p, t) ==
  LET ct == GcmCtr(k, iv, p) IN ct \o GcmTag(k, iv, aad, ct, t)

\* Authenticated decryption of ciphertext-with-tag under a t-byte tag: the
\* plaintext when the tag verifies, the authentication failure otherwise.
GcmOpen(k, iv, aad, input, t) ==
  IF Len(input) < t THEN Err("AuthenticationFailure")
  ELSE LET ct == DropLast(input, t)
           tag == TakeLast(input, t)
       IN IF tag = GcmTag(k, iv, aad, ct, t)
          THEN Ok(GcmCtr(k, iv, ct))
          ELSE Err("AuthenticationFailure")

(***************************************************************************)
(* EncryptionKey.  A key object holds its raw bytes.                       *)
(***************************************************************************)
NoKey == [present |-> FALSE, bytes |-> <<>>]
KeyOf(bytes) == [present |-> TRUE, bytes |-> bytes]

\* web: crypto.subtle.importKey('raw', bytes, 'AES-GCM', ...) takes the view's
\* bytes and rejects (DataError) a length that is no AES key length.
importKeyWeb(input) ==
  LET bytes == Content(input)
  IN IF Len(bytes) * 8 \in KeySizes THEN Ok(KeyOf(bytes)) ELSE Err("InvalidKeyLength")

\* An import that cuts bytes beyond the longest key off.
importKeyTruncating(input) ==
  LET bytes == nativeBytes(input)
  IN IF \E size \in KeySizes : size = Len(bytes) * 8 THEN Ok(KeyOf(bytes))
     ELSE IF Len(bytes) > 32 THEN Ok(KeyOf(Take(bytes, 32)))
     ELSE Err("InvalidKeyLength")

\* Android: KeySize.fromByteLength, then SecretKeySpec(bytes).
importKeyAndroid(input) ==
  LET bytes == nativeBytes(input)
  IN IF \E size \in KeySizes : size = Len(bytes) * 8
     THEN Ok(KeyOf(bytes)) ELSE Err("InvalidKeyLength")

\* iOS: guard KeySize.isValidSize(byteLength:), then SymmetricKey(data:).
importKeyIos(input) ==
  LET bytes == nativeBytes(input)
  IN IF \E size \in KeySizes : size \div 8 = Len(bytes)
     THEN Ok(KeyOf(bytes)) ELSE Err("InvalidKeyLength")

importKey(be, input) ==
  CASE be = "web" -> importKeyWeb(input)
    [] be = "android" -> importKeyAndroid(input)
    [] be = "ios" -> importKeyIos(input)

\* generateKey(size): size / 8 bytes of the platform's random source
\* (crypto.subtle.generateKey, KeyGenerator, SymmetricKey(size:)).
generateKey(be, size, r) == Ok(KeyOf(Repeat(size \div 8, r)))

\* The size argument of generateKey: absent, or a KeySize.
NoSize == [given |-> FALSE, size |-> 0]
SizeOf(size) == [given |-> TRUE, size |-> size]
\* generateKey(size?): input ?? 256, size ?: KeySize.AES256, size ?? KeySize.aes256.
generateKeyOf(be, size, r) == generateKey(be, IF size.given THEN size.size ELSE 256, r)

\* The size property of a key.
\* web: get size() { return this.bytes.length * 8 }: this.bytes is the method
\* bytes(), and the length of a function is the number of its parameters.
bytesMethodLength == 0
sizeWeb(k) == bytesMethodLength * 8
\* Android: keySize, which the constructors set to the size asked for or to
\* KeySize.fromByteLength(bytes.size), each the bit length of the key's bytes.
sizeAndroid(k) == Len(k.bytes) * 8
\* iOS: KeySize(rawValue: inner.bitCount)
sizeIos(k) == Len(k.bytes) * 8
sizeOf(be, k) ==
  CASE be = "web" -> sizeWeb(k)
    [] be = "android" -> sizeAndroid(k)
    [] be = "ios" -> sizeIos(k)

(***************************************************************************)
(* Key export.  An exported array is the bytes and whether the array is    *)
(* the key's own storage (alias) or a copy of it.                          *)
(***************************************************************************)
Exported(bytes, alias) == [bytes |-> bytes, alias |-> alias]

\* An export that hands the key's own storage out.
bytesWebShared(k) == Ok(Exported(k.bytes, TRUE))

\* web: new Uint8Array(await crypto.subtle.exportKey('raw', this.key)): a
\* new ArrayBuffer at every call.
bytesWeb(k) == Ok(Exported(k.bytes, FALSE))

\* Android: nativeInstance.encoded, SecretKeySpec.getEncoded(), a clone.
bytesAndroid(k) == Ok(Exported(k.bytes, FALSE))

\* iOS: a new Data(count:) that the key's bytes are copied to.
bytesIos(k) == Ok(Exported(k.bytes, FALSE))

bytesOf(be, k) ==
  CASE be = "web" -> bytesWeb(k)
    [] be = "android" -> bytesAndroid(k)
    [] be = "ios" -> bytesIos(k)

\* bytesToHex / getEncoded(with: .hex): two hexadecimal digits a byte, the
\* high one first.
bytesToHex(bytes) ==
  [i \in 1..(2 * Len(bytes)) |->
     IF i % 2 = 1 THEN D(bytes[(i + 1) \div 2].b \div 16)
     ELSE D(bytes[i \div 2].b % 16)]

\* key.encoded('hex').  The Android class has no encoded function.
encoded(be, k) ==
  CASE be = "web" -> LET bytes == bytesWeb(k)
                     IN IF bytes.ok THEN Ok(bytesToHex(bytes.value.bytes)) ELSE bytes
    [] be = "android" -> Err("NotAFunction")
    [] be = "ios" -> Ok(bytesToHex(bytesIos(k).value.bytes))

(***************************************************************************)
(* SealedData: ivLength, tagLength and the bytes nonce || ciphertext ||    *)
(* tag.  (The iOS class holds a CryptoKit SealedBox: its nonce, ciphertext *)
(* and tag are the three parts of content here, and ivLength, tagLength    *)
(* the lengths of its nonce and tag.)                                      *)
(***************************************************************************)
NoSealed == [present |-> FALSE, ivLength |-> 0, tagLength |-> 0, content |-> <<>>]
SD(ivLength, tagLength, content) ==
  [present |-> TRUE, ivLength |-> ivLength, tagLength |-> tagLength, content |-> content]

Config(ivLength, tagLength) == [ivLength |-> ivLength, tagLength |-> tagLength]
defaultConfig == Config(IV_LENGTH, TAG_LENGTH)

\* The tag argument of fromNonceAndCiphertext: absent, a length, or bytes.
NoTag == [kind |-> "none", length |-> 0, bytes |-> Whole(<<>>)]
TagLength(t) == [kind |-> "length", length |-> t, bytes |-> Whole(<<>>)]
TagBytes(v) == [kind |-> "bytes", length |-> 0, bytes |-> v]

\* --- web -----------------------------------------------------------------
fromCombinedWeb(combined, config) ==
  Ok(SD(config.ivLength, config.tagLength, serializableInputBuffer(combined)))

fromNonceAndCiphertextWeb(iv, ciphertext, tag) ==
  LET ciphertextBuffer == serializableInputBuffer(ciphertext)
      ivBuffer == serializableInputBuffer(iv)
      ivLength == Len(ivBuffer)
      \* if (!tag) tag = TAG_LENGTH
      tag1 == IF tag.kind = "none" \/ (tag.kind = "length" /\ tag.length = 0)
              THEN TagLength(TAG_LENGTH) ELSE tag
  IN IF tag1.kind = "length"
     THEN Ok(SD(ivLength, tag1.length, ivBuffer \o ciphertextBuffer))
     ELSE LET tagBuffer == serializableInputBuffer(tag1.bytes)
          IN Ok(SD(ivLength, Len(tagBuffer), ivBuffer \o ciphertextBuffer \o tagBuffer))

\* new Uint8Array(buffer, byteOffset, length) throws a RangeError outside the buffer.
typedArray(buffer, byteOffset, length) ==
  IF byteOffset < 0 \/ length < 0 \/ byteOffset + length > Len(buffer)
  THEN Err("RangeError")
  ELSE Ok(SubSeq(buffer, byteOffset + 1, byteOffset + length))

ivWeb(sd) == typedArray(sd.content, 0, sd.ivLength)
tagWeb(sd) == typedArray(sd.content, Len(sd.content) - sd.tagLength, sd.tagLength)
combinedWeb(sd) == Ok(sd.content)
ciphertextWeb(sd, withTag) ==
  LET taggedCiphertextLength == Len(sd.content) - sd.ivLength
      ciphertextLength == IF withTag THEN taggedCiphertextLength
                          ELSE taggedCiphertextLength - sd.tagLength
  IN typedArray(sd.content, sd.ivLength, ciphertextLength)

\* --- Android -------------------------------------------------------------
\* SealedData(ivLength, tagLength, content): init { assert(content.size > ivLength + tagLength) }.
\* A Kotlin assert throws (an AssertionError, "Invalid SealedData size") only
\* where the runtime enables assertions.
SealedDataAndroid(asserts, ivLength, tagLength, content) ==
  IF asserts /\ ~(Len(content) > ivLength + tagLength)
  THEN Err("InvalidContainerSize")
  ELSE Ok(SD(ivLength, tagLength, content))

\* Constructor { combined, ivLength, tagLength? }
fromCombinedAndroid(asserts, combined, config) ==
  SealedDataAndroid(asserts, config.ivLength, config.tagLength, nativeBytes(combined))

\* Constructor { iv, ciphertextWithTag, tagLength? }
fromNonceAndCiphertextAndroid(asserts, iv, ciphertext, tag) ==
  IF tag.kind = "bytes" THEN Err("UnsupportedArgument")
  ELSE SealedDataAndroid(asserts, Len(nativeBytes(iv)),
                         IF tag.kind = "none" THEN DEFAULT_TAG_LENGTH ELSE tag.length,
                         nativeBytes(iv) \o nativeBytes(ciphertext))

\* ByteBuffer.wrap(array, offset, length) throws outside the array.
wrap(content, offset, length) ==
  IF offset < 0 \/ length < 0 \/ offset + length > Len(content)
  THEN Err("IndexOutOfBounds")
  ELSE Ok(SubSeq(content, offset + 1, offset + length))

ciphertextSize(sd) == Len(sd.content) - sd.ivLength - sd.tagLength
ivBytes(sd) == wrap(sd.content, 0, sd.ivLength)
ciphertextBuffer(sd) == wrap(sd.content, sd.ivLength, ciphertextSize(sd))
nativeCipherBuffer(sd) == wrap(sd.content, sd.ivLength, ciphertextSize(sd) + sd.tagLength)
combinedAndroid(sd) == Ok(sd.content)

\* --- iOS -----------------------------------------------------------------
\* CryptoKit: AES.GCM.Nonce(data:) wants at least 12 bytes; SealedBox(nonce:
\* ciphertext:tag:) wants a 16-byte tag; SealedBox(combined:) wants at least
\* 12 + 16 bytes and reads a 12-byte nonce and a 16-byte tag.
SealedBoxIos(nonce, ciphertext, tag) ==
  IF Len(nonce) < DEFAULT_IV_LENGTH \/ Len(tag) # DEFAULT_TAG_LENGTH
  THEN Err("IncorrectParameterSize")
  ELSE Ok(SD(Len(nonce), Len(tag), nonce \o ciphertext \o tag))

\* SealedData.init(ivLength:tagLength:content:)
fromCombinedIos(combined, config) ==
  LET content == nativeBytes(combined)
  IN IF config.ivLength = 12
     THEN IF Len(content) < DEFAULT_IV_LENGTH + DEFAULT_TAG_LENGTH
          THEN Err("IncorrectParameterSize")
          ELSE Ok(SD(DEFAULT_IV_LENGTH, DEFAULT_TAG_LENGTH, content))
     ELSE SealedBoxIos(Take(content, config.ivLength),
                       DropLast(Drop(content, config.ivLength), config.tagLength),
                       TakeLast(content, config.tagLength))

\* SealedData.init(iv:ciphertext:tag:) and init(iv:ciphertextWithTag:tagLength:)
fromNonceAndCiphertextIos(iv, ciphertext, tag) ==
  IF tag.kind = "bytes"
  THEN SealedBoxIos(nativeBytes(iv), nativeBytes(ciphertext), nativeBytes(tag.bytes))
  ELSE LET tagLength == IF tag.kind = "none" THEN DEFAULT_TAG_LENGTH ELSE tag.length
       IN SealedBoxIos(nativeBytes(iv),
                       DropLast(nativeBytes(ciphertext), tagLength),
                       TakeLast(nativeBytes(ciphertext), tagLength))

ivIos(sd) == Ok(Take(sd.content, sd.ivLength))
tagIos(sd) == Ok(TakeLast(sd.content, sd.tagLength))
combinedIos(sd) == Ok(sd.content)
ciphertextIos(sd, withTag) ==
  Ok(IF withTag THEN Drop(sd.content, sd.ivLength)
     ELSE DropLast(Drop(sd.content, sd.ivLength), sd.tagLength))

\* --- dispatch ------------------------------------------------------------
fromCombined(be, asserts, combined, config) ==
  CASE be = "web" -> fromCombinedWeb(combined, config)
    [] be = "android" -> fromCombinedAndroid(asserts, combined, config)
    [] be = "ios" -> fromCombinedIos(combined, config)

fromNonceAndCiphertext(be, asserts, iv, ciphertext, tag) ==
  CASE be = "web" -> fromNonceAndCiphertextWeb(iv, ciphertext, tag)
    [] be = "android" -> fromNonceAndCiphertextAndroid(asserts, iv, ciphertext, tag)
    [] be = "ios" -> fromNonceAndCiphertextIos(iv, ciphertext, tag)

combined(be, sd) ==
  CASE be = "web" -> combinedWeb(sd)
    [] be = "android" -> combinedAndroid(sd)
    [] be = "ios" -> combinedIos(sd)

ivOf(be, sd) ==
  CASE be = "web" -> ivWeb(sd)
    [] be = "android" -> ivBytes(sd)
    [] be = "ios" -> ivIos(sd)

\* The Android class has no tag function.
tagOf(be, sd) ==
  CASE be = "web" -> tagWeb(sd)
    [] be = "android" -> Err("NotAFunction")
    [] be = "ios" -> tagIos(sd)

ciphertextOf(be, sd, withTag) ==
  CASE be = "web" -> ciphertextWeb(sd, withTag)
    [] be = "android" -> IF withTag THEN nativeCipherBuffer(sd) ELSE ciphertextBuffer(sd)
    [] be = "ios" -> ciphertextIos(sd, withTag)

\* Everything a caller can read from a SealedData.
Accessors(be, sd) ==
  [iv |-> ivOf(be, sd),
   ciphertext |-> ciphertextOf(be, sd, FALSE),
   ciphertextWithTag |-> ciphertextOf(be, sd, TRUE),
   tag |-> tagOf(be, sd),
   combined |-> combined(be, sd),
   ivSize |-> sd.ivLength,
   tagSize |-> sd.tagLength,
   combinedSize |-> Len(sd.content)]

(***************************************************************************)
(* EncryptOptions / DecryptOptions.                                        *)
(***************************************************************************)
NonceDefault == [kind |-> "none", length |-> 0, bytes |-> Whole(<<>>)]
NonceLength(n) == [kind |-> "length", length |-> n, bytes |-> Whole(<<>>)]
NonceBytes(v) == [kind |-> "bytes", length |-> 0, bytes |-> v]
TagDefault == [given |-> FALSE, length |-> 0]
TagOf(t) == [given |-> TRUE, length |-> t]
NoAad == [given |-> FALSE, bytes |-> Whole(<<>>)]
Aad(v) == [given |-> TRUE, bytes |-> v]
EncryptOptions(nonce, tagLength, aad) ==
  [nonce |-> nonce, tagLength |-> tagLength, additionalData |-> aad]
DefaultOptions == EncryptOptions(NonceDefault, TagDefault, NoAad)

\* crypto.getRandomValues / the platform's nonce generator: n random bytes.
RandomBytes(n, r) == Repeat(n, r)

(***************************************************************************)
(* encryptAsync                                                            *)
(***************************************************************************)
\* web: AesCryptoModule.encryptAsync (the wrapper of index.ts maps the nonce
\* option to bytes or a length).
encryptWeb(plaintext, k, options, r) ==
  LET nonce == IF options.nonce.kind = "none"
               THEN NonceLength(IV_LENGTH) ELSE options.nonce
      tagLength == IF options.tagLength.given
                   THEN options.tagLength.length ELSE TAG_LENGTH
      iv == IF nonce.kind = "length"
            THEN Whole(RandomBytes(nonce.length, r)) ELSE nonce.bytes
      additionalData == IF options.additionalData.given
                        THEN serializableInputBuffer(options.additionalData.bytes)
                        ELSE <<>>
  IN IF tagLength \notin WebTagLengths \/ Content(iv) = <<>>
     THEN Err("OperationError")
     ELSE fromNonceAndCiphertextWeb(
            iv,
            Whole(GcmSeal(k.bytes, Content(iv), additionalData,
                          serializableInputBuffer(plaintext), tagLength)),
            TagLength(tagLength))

\* Android: AesCryptoModule.encrypt(key, plaintext, aad) and Cipher.encrypt.
\* The cipher is initialised without parameters: the provider draws a
\* 12-byte nonce and uses a 16-byte tag; the options hold nothing else.
encryptAndroid(asserts, plaintext, k, options, r) ==
  LET iv == RandomBytes(IV_LENGTH, r)
      aad == IF options.additionalData.given
             THEN nativeBytes(options.additionalData.bytes) ELSE <<>>
      p == nativeBytes(plaintext)
      plaintextSize == Len(p)
      ciphertextWithTagSize == plaintextSize + TAG_LENGTH
      tagSize == ciphertextWithTagSize - plaintextSize
      \* SealedData(iv, tagSize, plaintextSize): zeroes after the nonce
      made == SealedDataAndroid(asserts, Len(iv), tagSize,
                                iv \o Repeat(plaintextSize + tagSize, 0))
  IN IF ~made.ok THEN made
     ELSE Ok(SD(Len(iv), tagSize, iv \o GcmSeal(k.bytes, iv, aad, p, tagSize)))

\* iOS: AesCryptoModule.encrypt(plaintext:key:options:); CryptoKit seals
\* with a 16-byte tag.
encryptIos(plaintext, k, options, r) ==
  LET nonce == options.nonce
      iv == CASE nonce.kind = "bytes" -> nativeBytes(nonce.bytes)
              [] nonce.kind = "length" -> RandomBytes(nonce.length, r)
              [] OTHER -> RandomBytes(DEFAULT_IV_LENGTH, r)
      aad == IF options.additionalData.given
             THEN nativeBytes(options.additionalData.bytes) ELSE <<>>
      p == nativeBytes(plaintext)
  IN IF Len(iv) < DEFAULT_IV_LENGTH THEN Err("IncorrectParameterSize")
     ELSE Ok(SD(Len(iv), DEFAULT_TAG_LENGTH,
                iv \o GcmSeal(k.bytes, iv, aad, p, DEFAULT_TAG_LENGTH)))

encryptAsync(be, asserts, plaintext, k, options, r) ==
  CASE be = "web" -> encryptWeb(plaintext, k, options, r)
    [] be = "android" -> encryptAndroid(asserts, plaintext, k, options, r)
    [] be = "ios" -> encryptIos(plaintext, k, options, r)

(***************************************************************************)
(* decryptAsync                                                            *)
(***************************************************************************)
\* A web decryption in counter mode, with no tag verified.
decryptWebUnchecked(sd, k, aad) ==
  LET iv == ivWeb(sd)
      taggedCiphertext == ciphertextWeb(sd, TRUE)
  IN IF ~iv.ok THEN iv
     ELSE IF ~taggedCiphertext.ok THEN taggedCiphertext
     ELSE Ok(GcmCtr(k.bytes, iv.value, DropLast(taggedCiphertext.value, sd.tagLength)))

\* A web decryption that reports a damaged tag as a failure of its own kind.
decryptWebTelling(sd, k, aad) ==
  LET iv == ivWeb(sd)
      additionalData == IF aad.given THEN serializableInputBuffer(aad.bytes) ELSE <<>>
      taggedCiphertext == ciphertextWeb(sd, TRUE)
      opened == GcmOpen(k.bytes, iv.value, additionalData, taggedCiphertext.value,
                        sd.tagLength)
  IN IF ~iv.ok THEN iv
     ELSE IF ~taggedCiphertext.ok THEN taggedCiphertext
     ELSE IF opened.ok THEN opened
     ELSE IF \E i \in 1..Len(sd.content) : ~IsData(sd.content[i]) /\ sd.content[i].x # 0
     THEN Err("TagCorrupted")
     ELSE opened

\* web: AesCryptoModule.decryptAsync.  crypto.subtle.decrypt rejects with an
\* OperationError, the web's authentication failure, whatever did not verify.
decryptWeb(sd, k, aad) ==
  LET iv == ivWeb(sd)
      additionalData == IF aad.given THEN serializableInputBuffer(aad.bytes) ELSE <<>>
      taggedCiphertext == ciphertextWeb(sd, TRUE)
  IN IF ~iv.ok THEN iv
     ELSE IF ~taggedCiphertext.ok THEN taggedCiphertext
     ELSE IF sd.tagLength \notin WebTagLengths \/ iv.value = <<>>
     THEN Err("AuthenticationFailure")
     ELSE GcmOpen(k.bytes, iv.value, additionalData, taggedCiphertext.value, sd.tagLength)

\* An Android decryption that returns the output buffer whatever doFinal did.
decryptAndroidLeaky(exact, sd, k, aad) ==
  LET iv == ivBytes(sd)
      additionalData == IF aad.given THEN nativeBytes(aad.bytes) ELSE <<>>
      inputBuf == nativeCipherBuffer(sd)
  IN IF ~iv.ok THEN iv
     ELSE IF ~inputBuf.ok THEN inputBuf
     ELSE LET opened == GcmOpen(k.bytes, iv.value, additionalData, inputBuf.value, TAG_LENGTH)
          IN IF opened.ok THEN opened
             ELSE [opened EXCEPT
                     !.value = GcmCtr(k.bytes, iv.value, DropLast(inputBuf.value, TAG_LENGTH))]

\* Android: AesCryptoModule.decrypt and Cipher.decrypt.  The output buffer
\* has Cipher.getOutputSize bytes, which is the plaintext's length or, with
\* a provider that answers an upper bound, the input's length.
decryptAndroid(exact, sd, k, aad) ==
  LET iv == ivBytes(sd)
      additionalData == IF aad.given THEN nativeBytes(aad.bytes) ELSE <<>>
      inputBuf == nativeCipherBuffer(sd)
  IN IF ~iv.ok THEN iv
     ELSE IF ~inputBuf.ok THEN inputBuf
     ELSE LET opened == GcmOpen(k.bytes, iv.value, additionalData, inputBuf.value, TAG_LENGTH)
              plaintextSize == IF exact THEN Len(opened.value) ELSE Len(inputBuf.value)
          IN IF ~opened.ok THEN opened
             ELSE Ok(opened.value \o Repeat(plaintextSize - Len(opened.value), 0))

\* An iOS decryption in counter mode, with no tag verified.
decryptIosUnchecked(sd, k, aad) ==
  Ok(GcmCtr(k.bytes, Take(sd.content, sd.ivLength),
            DropLast(Drop(sd.content, sd.ivLength), sd.tagLength)))

\* iOS: AES.GCM.open(sealedData.nativeValue, using:, authenticating:).
decryptIos(sd, k, aad) ==
  LET additionalData == IF aad.given THEN nativeBytes(aad.bytes) ELSE <<>>
  IN GcmOpen(k.bytes, Take(sd.content, sd.ivLength), additionalData,
             Drop(sd.content, sd.ivLength), sd.tagLength)

decryptAsync(be, exact, sd, k, aad) ==
  CASE be = "web" -> decryptWeb(sd, k, aad)
    [] be = "android" -> decryptAndroid(exact, sd, k, aad)
    [] be = "ios" -> decryptIos(sd, k, aad)

(***************************************************************************)
(* The state: a caller on one backend holding a key object, a SealedData   *)
(* object and the bytes of a container in transit (wire), with the outcome *)
(* of its last call (result).  enc and origin record the arguments of the  *)
(* last encryption and where the SealedData came from.  held is the array  *)
(* the caller got from the last bytes() or accessor call, with the bytes   *)
(* the key was made of and what the accessors gave when first called.      *)
(***************************************************************************)
NoParts == [iv |-> <<>>, ciphertext |-> <<>>, tag |-> <<>>]
NoWire == [present |-> FALSE, bytes |-> <<>>, alias |-> FALSE, flip |-> "none",
           from |-> NoSealed, src |-> "none", parts |-> NoParts]
NoResult == [op |-> "none", ok |-> TRUE, error |-> "none", bytes |-> <<>>,
             arg |-> <<>>, ivLength |-> 0, tagLength |-> 0, key |-> <<>>, aad |-> <<>>]
NoEnc == [present |-> FALSE, p |-> <<>>, key |-> <<>>, aad |-> <<>>,
          options |-> DefaultOptions]
NoOrigin == [src |-> "none", flip |-> "none", first |-> NoSealed, via |-> "none",
             parts |-> NoParts, config |-> Config(0, 0)]

\* The calls in flight: each caller's task runs one call of the module at a
\* time.  A call that encrypts or decrypts works on a cipher instance of its
\* own (the parameters it hands to the platform).
Tasks == {1, 2}
NoCall == [op |-> "idle", pc |-> "idle", arg |-> Whole(<<>>), aad |-> NoAad,
           size |-> 0, r |-> 0, out |-> Ok(<<>>), alone |-> Ok(<<>>)]
NoCipher == [set |-> FALSE, key |-> <<>>, iv |-> <<>>, aad |-> NoAad, r |-> 0]

\* The last call of the two-argument form fromNonceAndCiphertext(iv,
\* ciphertextWithTag, tagLength?): its arguments and its outcome.
NoPair == [present |-> FALSE, iv |-> Whole(<<>>), ciphertextWithTag |-> Whole(<<>>),
           tagLength |-> 0, out |-> Err("none")]

NoRead == [read |-> FALSE]
NoHeld == [present |-> FALSE, of |-> "none", bytes |-> <<>>, alias |-> FALSE,
           offset |-> 0, wrote |-> FALSE, made |-> <<>>, first |-> NoRead]

\* The caller's array after a call made a new key object (kind "key") or a
\* new SealedData object (kind "sealed"): an array of the object that was
\* replaced is no view of the new one.
Unbound(h, kind) ==
  IF kind = "key"
  THEN IF h.of = "key" THEN [h EXCEPT !.alias = FALSE] ELSE h
  ELSE IF h.of \notin {"none", "key"}
       THEN [h EXCEPT !.alias = FALSE, !.first = NoRead]
       ELSE [h EXCEPT !.first = NoRead]

Outcome(op, out, bytes, arg, ivLength, tagLength) ==
  [op |-> op, ok |-> out.ok, error |-> out.error, bytes |-> bytes,
   arg |-> arg, ivLength |-> ivLength, tagLength |-> tagLength,
   key |-> <<>>, aad |-> <<>>]

AadContent(aad) == IF aad.given THEN Content(aad.bytes) ELSE <<>>

\* The part of nonce || ciphertext || tag that position i of len bytes lies in.
Region(i, ivLength, tagLength, len) ==
  IF i <= ivLength THEN "nonce"
  ELSE IF i > len - tagLength THEN "tag"
  ELSE "ciphertext"

(***************************************************************************)
(* The application: the download screen, the upload screen, the file       *)
(* hosting context, the calls of runCatching in flight, and the last call  *)
(* of inferFileExtensionFromMagicBytes.  An asynchronous function in       *)
(* flight is a task: what it awaits and the values its closure captured.   *)
(***************************************************************************)
MaxTasks == 2   \* asynchronous functions in flight at a time, a screen
MaxData == 2    \* the images (and their encrypted data) are 1..MaxData
AppTasks == 1..MaxTasks
DataIds == 1..MaxData
NoTask == [kind |-> "idle"]

\* DownloadScreen: useState<DownloadState>({ step: 'load', encryptedData: null });
\* null and an absent decryptedData are 0.
DownloadState(step, encryptedData, decryptedData) ==
  [step |-> step, encryptedData |-> encryptedData, decryptedData |-> decryptedData]
NoDownload ==
  [state |-> DownloadState("load", 0, 0), tasks |-> [t \in AppTasks |-> NoTask]]
NoUpload ==
  [image |-> 0, encryptedBlob |-> 0, encryptionStatus |-> "not started",
   tasks |-> [t \in AppTasks |-> NoTask]]
NoHosting == [appState |-> [status |-> "none"], tasks |-> [t \in AppTasks |-> NoTask]]
NoCatching == [t \in AppTasks |-> NoTask]
NoProbe == [called |-> FALSE]

Init ==
  /\ backend \in Backends
  /\ assertsOn \in BOOLEAN
  /\ exactSize \in BOOLEAN
  /\ backend # "android" => (~assertsOn /\ exactSize)
  /\ key = NoKey
  /\ sealed = NoSealed
  /\ wire = NoWire
  /\ result = NoResult
  /\ enc = NoEnc
  /\ origin = NoOrigin
  /\ held = NoHeld
  /\ calls = [t \in Tasks |-> NoCall]
  /\ ciphers = [t \in Tasks |-> NoCipher]
  /\ pair = NoPair
  /\ download = NoDownload
  /\ upload = NoUpload
  /\ hosting = NoHosting
  /\ catching = NoCatching
  /\ probe = NoProbe

\* importKey(bytes)
ImportKey(input) ==
  \E out \in {importKey(backend, input)} :
     /\ key' = IF out.ok THEN out.value ELSE key
     /\ result' = Outcome("importKey", out, <<>>, Content(input), 0, 0)
     /\ held' = IF out.ok
                THEN [Unbound(held, "key") EXCEPT !.made = out.value.bytes] ELSE held
     /\ UNCHANGED <<appVars, pair, calls, ciphers, backend, assertsOn, exactSize, sealed, wire, enc, origin>>

\* generateKey(size?); r is what the random source gives.
GenerateKey(size, r) ==
  \E out \in {generateKeyOf(backend, size, r)} :
     /\ key' = IF out.ok THEN out.value ELSE key
     /\ result' = Outcome("generateKey", out, <<>>, size, 0, 0)
     /\ held' = IF out.ok
                THEN [Unbound(held, "key") EXCEPT !.made = out.value.bytes] ELSE held
     /\ UNCHANGED <<appVars, pair, calls, ciphers, backend, assertsOn, exactSize, sealed, wire, enc, origin>>

\* encryptAsync(plaintext, key, options); r is what the random source gives.
Encrypt(plaintext, options, r) ==
  /\ key.present
  /\ \E out \in {encryptAsync(backend, assertsOn, plaintext, key, options, r)} :
        /\ sealed' = IF out.ok THEN out.value ELSE sealed
        /\ origin' = IF out.ok THEN [NoOrigin EXCEPT !.src = "encrypt"] ELSE origin
        /\ enc' = IF out.ok
                  THEN [present |-> TRUE, p |-> Content(plaintext), key |-> key.bytes,
                        aad |-> AadContent(options.additionalData), options |-> options]
                  ELSE enc
        /\ wire' = IF out.ok THEN [wire EXCEPT !.alias = FALSE] ELSE wire
        /\ result' = Outcome("encryptAsync", out, <<>>, Content(plaintext), 0, 0)
        /\ held' = IF out.ok THEN Unbound(held, "sealed") ELSE held
  /\ UNCHANGED <<appVars, pair, calls, ciphers, backend, assertsOn, exactSize, key>>

\* A decryption in place: the plaintext is written over the ciphertext in
\* the container.
DecryptInPlace(aad) ==
  /\ key.present
  /\ sealed.present
  /\ \E out \in {decryptAsync(backend, exactSize, sealed, key, aad)} :
        /\ result' = [Outcome("decryptAsync", out, out.value, <<>>, 0, 0)
                        EXCEPT !.key = key.bytes, !.aad = AadContent(aad)]
        /\ sealed' = IF out.ok
                     THEN [sealed EXCEPT !.content =
                             Take(sealed.content, sealed.ivLength) \o out.value
                               \o Drop(sealed.content, sealed.ivLength + Len(out.value))]
                     ELSE sealed
  /\ UNCHANGED <<appVars, pair, calls, ciphers, backend, assertsOn, exactSize, key, wire, enc, origin, held>>

\* decryptAsync(sealedData, key, {additionalData})
Decrypt(aad) ==
  /\ key.present
  /\ sealed.present
  /\ \E out \in {decryptAsync(backend, exactSize, sealed, key, aad)} :
        result' = [Outcome("decryptAsync", out, out.value, <<>>, 0, 0)
                     EXCEPT !.key = key.bytes, !.aad = AadContent(aad)]
  /\ UNCHANGED <<appVars, pair, calls, ciphers, backend, assertsOn, exactSize, key, sealed, wire, enc, origin, held>>

\* sealedData.combined(): the caller takes the container's bytes.  On the web
\* the Uint8Array it gets is a view of the container's own buffer.
Combined ==
  /\ sealed.present
  /\ \E out \in {combined(backend, sealed)} :
        /\ wire' = IF out.ok
                   THEN [present |-> TRUE, bytes |-> out.value, alias |-> backend = "web",
                         flip |-> origin.flip, from |-> sealed,
                         src |-> origin.src, parts |-> origin.parts]
                   ELSE wire
        /\ result' = Outcome("combined", out, out.value, <<>>,
                             sealed.ivLength, sealed.tagLength)
  /\ UNCHANGED <<appVars, pair, calls, ciphers, backend, assertsOn, exactSize, key, sealed, enc, origin, held>>

\* One bit of the bytes in transit is flipped: bit j of byte i.
FlipBit(i, j) ==
  /\ wire.present
  /\ wire.from.present
  /\ wire.flip = "none"
  /\ i \in 1..Len(wire.bytes)
  /\ LET region == Region(i, wire.from.ivLength, wire.from.tagLength, Len(wire.bytes))
     IN /\ wire' = [wire EXCEPT !.bytes[i] = FlipByte(@, j), !.flip = region]
        /\ sealed' = IF wire.alias
                     THEN [sealed EXCEPT !.content[i] = FlipByte(@, j)] ELSE sealed
        /\ origin' = IF wire.alias THEN [origin EXCEPT !.flip = region] ELSE origin
  /\ result' = [NoResult EXCEPT !.op = "write"]
  /\ UNCHANGED <<appVars, pair, calls, ciphers, backend, assertsOn, exactSize, key, enc, held>>

\* SealedData.fromCombined(combined, config); transit says whether combined
\* is the bytes in transit or bytes the caller made up.
FromCombined(input, config, transit) ==
  /\ transit => (wire.present /\ input = Whole(wire.bytes))
  /\ \E out \in {fromCombined(backend, assertsOn, input, config)} :
        /\ sealed' = IF out.ok THEN out.value ELSE sealed
        /\ origin' = IF out.ok
                     THEN [src |-> "fromCombined",
                           flip |-> IF transit THEN wire.flip ELSE "none",
                           first |-> IF transit THEN wire.from ELSE NoSealed,
                           via |-> IF transit THEN wire.src ELSE "none",
                           parts |-> IF transit THEN wire.parts ELSE NoParts,
                           config |-> config]
                     ELSE origin
        /\ wire' = IF out.ok
                   THEN [wire EXCEPT !.alias = transit /\ backend = "web"] ELSE wire
        /\ result' = Outcome("fromCombined", out, <<>>, Content(input),
                             config.ivLength, config.tagLength)
        /\ held' = IF out.ok THEN Unbound(held, "sealed") ELSE held
  /\ UNCHANGED <<appVars, pair, calls, ciphers, backend, assertsOn, exactSize, key, enc>>

\* SealedData.fromNonceAndCiphertext(iv, ciphertext, tag)
FromNonceAndCiphertext(iv, ciphertext, tag) ==
  /\ \E out \in {fromNonceAndCiphertext(backend, assertsOn, iv, ciphertext, tag)} :
        /\ sealed' = IF out.ok THEN out.value ELSE sealed
        /\ origin' = IF out.ok
                     THEN [NoOrigin EXCEPT
                             !.src = "fromNonceAndCiphertext",
                             !.parts = [iv |-> Content(iv),
                                        ciphertext |-> Content(ciphertext),
                                        tag |-> Content(tag.bytes)]]
                     ELSE origin
        /\ wire' = IF out.ok THEN [wire EXCEPT !.alias = FALSE] ELSE wire
        /\ result' = Outcome("fromNonceAndCiphertext", out, <<>>, Content(ciphertext),
                             Len(Content(iv)), Len(Content(tag.bytes)))
        /\ held' = IF out.ok THEN Unbound(held, "sealed") ELSE held
        /\ pair' = IF tag.kind = "bytes" THEN pair
                   ELSE [present |-> TRUE, iv |-> iv,
                         ciphertextWithTag |-> ciphertext,
                         tagLength |-> IF tag.kind = "length"
                                       THEN tag.length ELSE DEFAULT_TAG_LENGTH,
                         out |-> out]
  /\ UNCHANGED <<appVars, calls, ciphers, backend, assertsOn, exactSize, key, enc>>

\* key.bytes(): the caller takes the exported array.
KeyBytes ==
  /\ key.present
  /\ \E out \in {bytesOf(backend, key)} :
        /\ held' = IF out.ok
                   THEN [held EXCEPT !.present = TRUE, !.of = "key",
                                     !.bytes = out.value.bytes,
                                     !.alias = out.value.alias, !.offset = 0]
                   ELSE held
        /\ result' = Outcome("bytes", out, IF out.ok THEN out.value.bytes ELSE <<>>,
                             <<>>, 0, 0)
  /\ UNCHANGED <<appVars, pair, calls, ciphers, backend, assertsOn, exactSize, key, sealed, wire, enc, origin>>

\* key.encoded('hex')
KeyEncoded ==
  /\ key.present
  /\ \E out \in {encoded(backend, key)} :
        result' = Outcome("encoded", out, out.value, <<>>, 0, 0)
  /\ UNCHANGED <<appVars, pair, calls, ciphers, backend, assertsOn, exactSize, key, sealed, wire, enc, origin, held>>

\* Where a view of a SealedData's buffer starts, and whether what an accessor
\* returns is such a view.  web: new Uint8Array(this.buffer, offset, length).
\* Android: copiedArray(), and a ByteArray is copied on its way to JS.  iOS:
\* Data, a value.
AccessorNames == {"iv", "ciphertext", "ciphertextWithTag", "tag", "combined"}
accessorOffset(sd, name) ==
  CASE name \in {"iv", "combined"} -> 0
    [] name \in {"ciphertext", "ciphertextWithTag"} -> sd.ivLength
    [] name = "tag" -> Len(sd.content) - sd.tagLength
accessorIsView(be) == be = "web"

\* sealedData.iv() / ciphertext() / ciphertext({withTag: true}) / tag() /
\* combined(): the caller takes the returned array.
ReadSealed(name) ==
  /\ sealed.present
  /\ \E out \in {Accessors(backend, sealed)[name]} :
        /\ held' = IF out.ok
                   THEN [held EXCEPT !.present = TRUE, !.of = name,
                                     !.bytes = out.value,
                                     !.alias = accessorIsView(backend),
                                     !.offset = accessorOffset(sealed, name),
                                     !.first = IF held.first = NoRead
                                               THEN [read |-> TRUE,
                                                     got |-> Accessors(backend, sealed)]
                                               ELSE held.first]
                   ELSE held
        /\ result' = Outcome(name, out, out.value, <<>>,
                             sealed.ivLength, sealed.tagLength)
  /\ UNCHANGED <<appVars, pair, calls, ciphers, backend, assertsOn, exactSize, key, sealed, wire, enc, origin>>

\* The caller writes into the array it holds: bit j of byte i flips.  A
\* write to a view writes to the object's storage.
WriteHeld(i, j) ==
  /\ held.present
  /\ i \in 1..Len(held.bytes)
  /\ held' = [held EXCEPT !.bytes[i] = FlipByte(@, j), !.wrote = TRUE]
  /\ key' = IF held.alias /\ held.of = "key"
            THEN [key EXCEPT !.bytes[i] = FlipByte(@, j)] ELSE key
  /\ sealed' = IF held.alias /\ held.of # "key"
               THEN [sealed EXCEPT !.content[held.offset + i] = FlipByte(@, j)]
               ELSE sealed
  /\ result' = [NoResult EXCEPT !.op = "write"]
  /\ UNCHANGED <<appVars, pair, calls, ciphers, backend, assertsOn, exactSize, wire, enc, origin>>

(***************************************************************************)
(* Calls in flight.  A call begins, takes its steps and returns; steps of  *)
(* different calls interleave (on the web at the awaits, natively between  *)
(* any two statements).  alone is what the call returns when nothing else  *)
(* runs between its begin and its return.                                  *)
(***************************************************************************)
\* A cipher instance that every call uses.
cipherShared(t) == 1

\* The cipher instance of the call of task t: Cipher.getInstance(...) gives
\* every call a new one (the web's baseParams / gcmParams are locals of the
\* call, as are CryptoKit's arguments).
cipherOf(t) == t

Started(t, op, pc, arg, aad, size, r, alone) ==
  /\ calls[t].pc = "idle"
  /\ calls' = [calls EXCEPT ![t] = [op |-> op, pc |-> pc, arg |-> arg, aad |-> aad,
                                    size |-> size, r |-> r, out |-> Ok(<<>>),
                                    alone |-> alone]]
  /\ UNCHANGED <<appVars, pair, ciphers, backend, assertsOn, exactSize, key, sealed, wire, result,
                 enc, origin, held>>

CallGenerateKey(t, size, r) ==
  Started(t, "generateKey", "final", Whole(<<>>), NoAad, size, r,
          generateKey(backend, size, r))

CallImportKey(t, input) ==
  Started(t, "importKey", "final", input, NoAad, 0, 0, importKey(backend, input))

CallEncrypt(t, plaintext, aad, r) ==
  /\ key.present
  /\ Started(t, "encryptAsync", "init", plaintext, aad, 0, r,
             encryptAsync(backend, assertsOn, plaintext, key,
                          EncryptOptions(NonceDefault, TagDefault, aad), r))

CallDecrypt(t, aad) ==
  /\ key.present
  /\ sealed.present
  /\ Started(t, "decryptAsync", "init", Whole(<<>>), aad, 0, 0,
             decryptAsync(backend, exactSize, sealed, key, aad))

\* The call sets its cipher up: the key, and the nonce (the container's to
\* decrypt, a random one to encrypt).
InitCipher(t) ==
  /\ calls[t].pc = "init"
  /\ ciphers' = [ciphers EXCEPT ![cipherOf(t)] =
                   [set |-> TRUE, key |-> key.bytes,
                    iv |-> IF calls[t].op = "decryptAsync"
                           THEN ivOf(backend, sealed) ELSE Ok(<<>>),
                    aad |-> NoAad, r |-> calls[t].r]]
  /\ calls' = [calls EXCEPT ![t].pc = "aad"]
  /\ UNCHANGED <<appVars, pair, backend, assertsOn, exactSize, key, sealed, wire, result,
                 enc, origin, held>>

\* aad?.let { cipher.updateAAD(it) } / gcmParams / authenticating:
UpdateAad(t) ==
  /\ calls[t].pc = "aad"
  /\ ciphers' = [ciphers EXCEPT ![cipherOf(t)].aad = calls[t].aad]
  /\ calls' = [calls EXCEPT ![t].pc = "final"]
  /\ UNCHANGED <<appVars, pair, backend, assertsOn, exactSize, key, sealed, wire, result,
                 enc, origin, held>>

\* The container with the nonce the cipher was set up with.
WithIv(sd, iv) == [sd EXCEPT !.content = iv \o Drop(sd.content, sd.ivLength)]

\* What the call's last step computes from its cipher.
Final(t) ==
  LET call == calls[t]
      c == ciphers[cipherOf(t)]
  IN CASE call.op = "generateKey" -> generateKey(backend, call.size, call.r)
       [] call.op = "importKey" -> importKey(backend, call.arg)
       [] call.op = "encryptAsync" ->
            encryptAsync(backend, assertsOn, call.arg, KeyOf(c.key),
                         EncryptOptions(NonceDefault, TagDefault, c.aad), c.r)
       [] call.op = "decryptAsync" ->
            IF ~c.iv.ok THEN c.iv
            ELSE decryptAsync(backend, exactSize, WithIv(sealed, c.iv.value),
                              KeyOf(c.key), c.aad)

\* doFinal / crypto.subtle.encrypt, decrypt / AES.GCM.seal, open; or the
\* whole of generateKey and importKey.
DoFinal(t) ==
  /\ calls[t].pc = "final"
  /\ calls[t].op \in {"encryptAsync", "decryptAsync"} => ciphers[cipherOf(t)].set
  /\ \E out \in {Final(t)} : calls' = [calls EXCEPT ![t].pc = "done", ![t].out = out]
  /\ UNCHANGED <<appVars, pair, ciphers, backend, assertsOn, exactSize, key, sealed, wire, result,
                 enc, origin, held>>

\* The promise settles; the cipher of the call is garbage.
Return(t) ==
  /\ calls[t].pc = "done"
  /\ calls' = [calls EXCEPT ![t] = NoCall]
  /\ ciphers' = IF calls[t].op \in {"encryptAsync", "decryptAsync"}
                THEN [ciphers EXCEPT ![cipherOf(t)] = NoCipher] ELSE ciphers
  /\ UNCHANGED <<appVars, pair, backend, assertsOn, exactSize, key, sealed, wire, result,
                 enc, origin, held>>

(***************************************************************************)
(* The callers' inputs.                                                    *)
(***************************************************************************)
DataBytes == {D(n) : n \in 0..MaxByte}
Buffers == SeqsUpTo(DataBytes, MaxLen)
\* A Uint8Array over a whole buffer, or over a buffer from offset 1 on.
Inputs ==
  {Whole(s) : s \in Buffers} \cup {View(s, 1, Len(s) - 1) : s \in Buffers \ {<<>>}}
WholeInputs == {Whole(s) : s \in Buffers}
\* Every Uint8Array over a buffer of up to MaxLen + 1 bytes.
Views ==
  UNION {UNION {{View(s, off, len) : len \in 0..(Len(s) - off)} : off \in 0..Len(s)} :
           s \in SeqsUpTo(DataBytes, MaxLen + 1)}

KeyLengths == {0, 15, 16, 17, 24, 32, 33}
KeyInputs ==
  {View(Repeat(n + off, f), off, n) : n \in KeyLengths, off \in {0, 1}, f \in 1..MaxFill}
ValidKeyInputs == {Whole(Repeat(size \div 8, f)) : size \in KeySizes, f \in 1..MaxFill}

\* The two keys of a sender and a receiver that may or may not share one.
TwoKeyInputs == {Whole(Repeat(16, 1)), Whole(Repeat(32, 1))}

FlipBits == {0, 7}
\* The first and the last byte of the nonce, of the ciphertext and of the tag
\* of len bytes.
FlipPositions(ivLength, tagLength, len) ==
  {1, ivLength, ivLength + 1, len - tagLength, len - tagLength + 1, len} \cap (1..len)

(***************************************************************************)
(* Spec: keys are imported, a plaintext is encrypted with the default       *)
(* options and the container is decrypted, with that key or another.       *)
(***************************************************************************)
ImportValidKey == \E input \in ValidKeyInputs : ImportKey(input)
EncryptDefault ==
  /\ ~sealed.present
  /\ \E p \in Inputs, r \in 0..MaxRand : Encrypt(p, DefaultOptions, r)
DecryptPlain == Decrypt(NoAad)

Next == ImportValidKey \/ EncryptDefault \/ DecryptPlain

Spec == Init /\ [][Next]_vars

(***************************************************************************)
(* SpecKeys: raw bytes of any length are imported as keys.                 *)
(***************************************************************************)
ImportAnyKey == \E input \in KeyInputs : ImportKey(input)

NextKeys == ImportAnyKey

SpecKeys == Init /\ [][NextKeys]_vars

(***************************************************************************)
(* SpecTamper: a container is encrypted once, its combined bytes travel,   *)
(* one bit of them may flip, the receiver rebuilds the container with the  *)
(* default framing and decrypts it, with the same or another key, without  *)
(* or with additional data.                                                *)
(***************************************************************************)
EncryptOnce ==
  /\ ~sealed.present
  /\ \E p \in WholeInputs, r \in 0..MaxRand : Encrypt(p, DefaultOptions, r)
FlipAnyBit ==
  \E i \in FlipPositions(wire.from.ivLength, wire.from.tagLength, Len(wire.bytes)),
     j \in FlipBits : FlipBit(i, j)
CombinedOnce == ~wire.present /\ Combined
FromWire == origin.src = "encrypt" /\ FromCombined(Whole(wire.bytes), defaultConfig, TRUE)
DecryptAny == \E aad \in {NoAad, Aad(Whole(<<D(0)>>))} : Decrypt(aad)

ImportOneOfTwo == \E input \in TwoKeyInputs : ImportKey(input)

NextTamper ==
  ImportOneOfTwo \/ EncryptOnce \/ CombinedOnce \/ FlipAnyBit \/ FromWire \/ DecryptAny

SpecTamper == Init /\ [][NextTamper]_vars

(***************************************************************************)
(* SpecAad: a plaintext is encrypted under additional data and decrypted   *)
(* under additional data, each absent or any view.                         *)
(***************************************************************************)
AadInputs == {NoAad} \cup {Aad(v) : v \in Views}

ImportKeyOnce == ~key.present /\ ImportOneOfTwo
EncryptAad ==
  /\ ~sealed.present
  /\ \E p \in WholeInputs, aad \in AadInputs, r \in 0..MaxRand :
       Encrypt(p, EncryptOptions(NonceDefault, TagDefault, aad), r)
DecryptAad == \E aad \in AadInputs : Decrypt(aad)

NextAad == ImportKeyOnce \/ EncryptAad \/ DecryptAad

SpecAad == Init /\ [][NextAad]_vars

(***************************************************************************)
(* SpecFraming: the sender chooses a nonce length and a tag length, the    *)
(* combined bytes travel, and the receiver rebuilds the container with a   *)
(* framing and decrypts it.                                                *)
(***************************************************************************)
NonceLengths == {IV_LENGTH, IV_LENGTH + 1}
TagLengths == {TAG_LENGTH - 4, TAG_LENGTH}

EncryptFramed ==
  /\ ~sealed.present
  /\ \E p \in WholeInputs, n \in NonceLengths, t \in TagLengths, r \in 0..MaxRand :
       Encrypt(p, EncryptOptions(NonceLength(n), TagOf(t), NoAad), r)
FromWireFramed ==
  /\ origin.src = "encrypt"
  /\ \E n \in NonceLengths, t \in TagLengths :
       FromCombined(Whole(wire.bytes), Config(n, t), TRUE)

NextFraming ==
  ImportKeyOnce \/ EncryptFramed \/ CombinedOnce \/ FromWireFramed \/ DecryptPlain

SpecFraming == Init /\ [][NextFraming]_vars

(***************************************************************************)
(* SpecContainer: containers are built from three components or from a     *)
(* buffer, and a container built from components is rebuilt from its       *)
(* combined bytes.                                                         *)
(***************************************************************************)
NonceInputs ==
  {Whole(Repeat(IV_LENGTH, 0)), View(Repeat(IV_LENGTH + 1, 0), 1, IV_LENGTH),
   Whole(Repeat(1, 0))}
TagInputs ==
  {TagBytes(Whole(Repeat(TAG_LENGTH, 1))),
   TagBytes(View(Repeat(TAG_LENGTH + 1, 1), 1, TAG_LENGTH)),
   TagBytes(Whole(Repeat(1, 1)))}
CiphertextInputs == {v \in Views : Content(v) # <<>>}
ContainerConfigs == {defaultConfig, Config(1, 1)}
ContainerBuffers ==
  {Whole(Repeat(n, 0)) :
     n \in (0..3) \cup ((IV_LENGTH + TAG_LENGTH - 1)..(IV_LENGTH + TAG_LENGTH + 1))}

FromComponents ==
  /\ ~sealed.present
  /\ \E iv \in NonceInputs, c \in CiphertextInputs, tag \in TagInputs :
       FromNonceAndCiphertext(iv, c, tag)
FromWireAsBuilt ==
  /\ wire.src = "fromNonceAndCiphertext"
  /\ origin.src = "fromNonceAndCiphertext"
  /\ FromCombined(Whole(wire.bytes),
                  Config(Len(wire.parts.iv), Len(wire.parts.tag)), TRUE)
FromBuffer ==
  /\ ~sealed.present
  /\ \E input \in ContainerBuffers, config \in ContainerConfigs :
       FromCombined(input, config, FALSE)

NextContainer == FromComponents \/ CombinedOnce \/ FromWireAsBuilt \/ FromBuffer

SpecContainer == Init /\ [][NextContainer]_vars

(***************************************************************************)
(* SpecKeyExport: a key is imported, exported as bytes and as text, used   *)
(* to encrypt and to decrypt, while the caller writes into the exported    *)
(* arrays.                                                                 *)
(***************************************************************************)
WriteKeyArray ==
  /\ held.of = "key"
  /\ \E i \in {1, Len(held.bytes)}, j \in FlipBits : WriteHeld(i, j)

NextKeyExport ==
  ImportKeyOnce \/ KeyBytes \/ KeyEncoded \/ WriteKeyArray \/ EncryptOnce \/ DecryptPlain

SpecKeyExport == Init /\ [][NextKeyExport]_vars

(***************************************************************************)
(* SpecAccessors: a container is encrypted once, the caller reads it       *)
(* through the accessors and writes into the arrays they returned, and the *)
(* container is decrypted.                                                 *)
(***************************************************************************)
ReadAccessor == \E name \in AccessorNames : ReadSealed(name)
WriteAccessorArray ==
  /\ held.of \in AccessorNames
  /\ ~held.wrote
  /\ \E i \in {1, Len(held.bytes)}, j \in FlipBits : WriteHeld(i, j)

NextAccessors ==
  ImportKeyOnce \/ EncryptOnce \/ ReadAccessor \/ WriteAccessorArray \/ DecryptPlain

SpecAccessors == Init /\ [][NextAccessors]_vars

(***************************************************************************)
(* SpecOptions: a plaintext is encrypted with any choice of the nonce      *)
(* option (absent, a length, the caller's bytes) and of the tagLength      *)
(* option (absent or a length), and the container is decrypted.            *)
(***************************************************************************)
NonceOptions ==
  {NonceDefault} \cup {NonceLength(n) : n \in NonceLengths}
    \cup {NonceBytes(Whole(Repeat(IV_LENGTH, 1))),
          NonceBytes(View(Repeat(IV_LENGTH + 1, 1), 1, IV_LENGTH)),
          NonceBytes(View(Repeat(IV_LENGTH + 1, 1), 0, IV_LENGTH))}
TagOptions == {TagDefault} \cup {TagOf(t) : t \in TagLengths}

EncryptWithOptions ==
  /\ ~sealed.present
  /\ \E p \in Inputs, nonce \in NonceOptions, tagLength \in TagOptions, r \in 0..MaxRand :
       Encrypt(p, EncryptOptions(nonce, tagLength, NoAad), r)

NextOptions == ImportKeyOnce \/ EncryptWithOptions \/ DecryptPlain

SpecOptions == Init /\ [][NextOptions]_vars

(***************************************************************************)
(* SpecConcurrent: a key and a container are made, and two tasks run       *)
(* generateKey, importKey, encryptAsync and decryptAsync calls on them at   *)
(* the same time.                                                          *)
(***************************************************************************)
SharedPlaintext == Whole(Repeat(MaxLen, 0))
EncryptShared ==
  /\ ~sealed.present
  /\ \E r \in 0..MaxRand : Encrypt(SharedPlaintext, DefaultOptions, r)
CallAads == {NoAad, Aad(Whole(<<D(0)>>))}

BeginGenerateKey == \E t \in Tasks, size \in KeySizes, r \in 0..MaxRand : CallGenerateKey(t, size, r)
BeginImportKey == \E t \in Tasks, input \in TwoKeyInputs : CallImportKey(t, input)
BeginEncrypt == \E t \in Tasks, aad \in CallAads, r \in 0..MaxRand : CallEncrypt(t, SharedPlaintext, aad, r)
BeginDecrypt == \E t \in Tasks, aad \in CallAads : CallDecrypt(t, aad)
StepInit == \E t \in Tasks : InitCipher(t)
StepAad == \E t \in Tasks : UpdateAad(t)
StepFinal == \E t \in Tasks : DoFinal(t)
StepReturn == \E t \in Tasks : Return(t)

NextConcurrent ==
  \/ ImportKeyOnce
  \/ EncryptShared
  \/ BeginGenerateKey
  \/ BeginImportKey
  \/ BeginEncrypt
  \/ BeginDecrypt
  \/ StepInit
  \/ StepAad
  \/ StepFinal
  \/ StepReturn

SpecConcurrent == Init /\ [][NextConcurrent]_vars

(***************************************************************************)
(* SpecParts: containers are built from a buffer under a framing, from a   *)
(* nonce and a ciphertext with its tag appended (then from the slices of   *)
(* the same bytes, tag apart), and by encryptAsync.                        *)
(***************************************************************************)
\* n bytes that all differ.
Ramp(n) == [i \in 1..n |-> D(i)]
\* A Uint8Array of n bytes: over a whole buffer, or over the end or the
\* beginning of a longer buffer.
RampViews(n) == {Whole(Ramp(n)), View(Ramp(n + 1), 1, n), View(Ramp(n + 1), 0, n)}

PartLengths == {3, IV_LENGTH + TAG_LENGTH, IV_LENGTH + TAG_LENGTH + 1, IV_LENGTH + TAG_LENGTH + 2}
PartConfigs ==
  {defaultConfig, Config(IV_LENGTH, TAG_LENGTH - 4), Config(IV_LENGTH + 1, TAG_LENGTH),
   Config(1, 1)}
PairNonces == RampViews(IV_LENGTH)
PairCiphertexts == RampViews(TAG_LENGTH + 1) \cup {Whole(Ramp(TAG_LENGTH - 3))}
PairTags == {NoTag} \cup {TagLength(t) : t \in TagLengths \cup {0}}

\* len bytes of the array v from its index from: a copy of them (slice), or
\* a view of them over the buffer of v (subarray).
SlicesOf(v, from, len) ==
  {Whole(SubSeq(Content(v), from + 1, from + len)),
   View(v.buffer, v.byteOffset + from, len)}

FromBufferAny ==
  /\ ~pair.present
  /\ \E n \in PartLengths : \E input \in RampViews(n), config \in PartConfigs :
       FromCombined(input, config, FALSE)
FromTagged ==
  /\ ~pair.present
  /\ ~sealed.present
  /\ \E iv \in PairNonces, c \in PairCiphertexts, tag \in PairTags :
       FromNonceAndCiphertext(iv, c, tag)
FromSlices ==
  /\ pair.present
  /\ LET whole == pair.ciphertextWithTag
         t == IF pair.tagLength < whole.length THEN pair.tagLength ELSE whole.length
     IN \E c \in SlicesOf(whole, 0, whole.length - t),
           tag \in SlicesOf(whole, whole.length - t, t) :
          FromNonceAndCiphertext(pair.iv, c, TagBytes(tag))
EncryptPlain ==
  /\ ~pair.present
  /\ ~sealed.present
  /\ \E p \in WholeInputs, r \in 0..MaxRand : Encrypt(p, DefaultOptions, r)

NextParts == ImportKeyOnce \/ FromBufferAny \/ FromTagged \/ FromSlices \/ EncryptPlain

SpecParts == Init /\ [][NextParts]_vars

(***************************************************************************)
(* SpecKeySize: keys are generated, with or without a size, and imported   *)
(* from raw bytes of any length, and their bytes are exported.             *)
(***************************************************************************)
GenerateSizes == {NoSize} \cup {SizeOf(size) : size \in KeySizes}
GenerateAnyKey == \E size \in GenerateSizes, r \in 0..MaxRand : GenerateKey(size, r)

NextKeySize == GenerateAnyKey \/ ImportAnyKey \/ KeyBytes

SpecKeySize == Init /\ [][NextKeySize]_vars

(***************************************************************************)
(* SpecKeyRoundTrip: a key is imported from raw bytes and exported at      *)
(* once; a plaintext is encrypted; the exported bytes are imported again,  *)
(* in place of the key or as a second key that decrypts the container.     *)
(***************************************************************************)
\* (await importKey(input)).bytes()
ImportThenBytes(input) ==
  \E k \in {importKey(backend, input)} :
    \E out \in {IF k.ok THEN bytesOf(backend, k.value) ELSE k} :
       /\ key' = IF k.ok THEN k.value ELSE key
       /\ held' = IF out.ok
                  THEN [Unbound(held, "key") EXCEPT
                          !.made = k.value.bytes, !.present = TRUE, !.of = "key",
                          !.bytes = out.value.bytes, !.alias = out.value.alias,
                          !.offset = 0]
                  ELSE IF k.ok THEN [Unbound(held, "key") EXCEPT !.made = k.value.bytes]
                  ELSE held
       /\ result' = Outcome("importKey.bytes", out,
                            IF out.ok THEN out.value.bytes ELSE <<>>, Content(input), 0, 0)
       /\ UNCHANGED <<appVars, pair, calls, ciphers, backend, assertsOn, exactSize, sealed, wire, enc, origin>>

\* decryptAsync(sealedData, await importKey(await key.bytes()))
DecryptWithExportedKey ==
  /\ key.present
  /\ sealed.present
  /\ \E b \in {bytesOf(backend, key)} :
       \E k2 \in {IF b.ok THEN importKey(backend, Whole(b.value.bytes)) ELSE b} :
         \E out \in {IF k2.ok
                     THEN decryptAsync(backend, exactSize, sealed, k2.value, NoAad)
                     ELSE k2} :
            result' = [Outcome("importKey.decryptAsync", out,
                               IF out.ok THEN out.value ELSE <<>>, <<>>, 0, 0)
                         EXCEPT !.key = IF k2.ok THEN k2.value.bytes ELSE <<>>]
  /\ UNCHANGED <<appVars, pair, calls, ciphers, backend, assertsOn, exactSize, key, sealed, wire, enc, origin, held>>

RoundTripKeyInputs == UNION {RampViews(size \div 8) : size \in KeySizes}
ImportAndExport == ~key.present /\ \E input \in RoundTripKeyInputs : ImportThenBytes(input)
\* importKey(exported), the new key in place of the old one.
ImportExported == 
  /\ held.present
  /\ held.of = "key"
  /\ result.op # "importKey"
  /\ ImportKey(Whole(held.bytes))

NextKeyRoundTrip ==
  ImportAndExport \/ ImportExported \/ EncryptOnce \/ DecryptPlain \/ DecryptWithExportedKey

SpecKeyRoundTrip == Init /\ [][NextKeyRoundTrip]_vars

(***************************************************************************)
(* The download screen (app/(tabs)/download.tsx).  Its handlers are        *)
(* closures: each reads the downloadState of the render that made it.      *)
(* The handlers of the navigation buttons are those of the current render; *)
(* an asynchronous function in flight calls the handler it was given when  *)
(* it started.                                                             *)
(***************************************************************************)
\* A state the application starts in: the module's callers have done nothing.
InitApp == Init /\ backend = "web"

canGoNext(downloadState) ==
  CASE downloadState.step = "load" -> downloadState.encryptedData # 0
    [] downloadState.step = "decrypt" -> downloadState.decryptedData # 0
    [] downloadState.step = "display" -> FALSE

\* A Next that moves on whatever was loaded or decrypted.
handleNextUnchecked(downloadState) ==
  CASE downloadState.step = "load" ->
         DownloadState("decrypt", downloadState.encryptedData, 0)
    [] downloadState.step = "decrypt" ->
         DownloadState("display", downloadState.encryptedData, downloadState.decryptedData)
    [] OTHER -> downloadState

handleNext(downloadState) ==
  CASE downloadState.step = "load" ->
         IF downloadState.encryptedData # 0
         THEN DownloadState("decrypt", downloadState.encryptedData, 0)
         ELSE downloadState
    [] downloadState.step = "decrypt" ->
         IF downloadState.decryptedData # 0
         THEN DownloadState("display", downloadState.encryptedData,
                            downloadState.decryptedData)
         ELSE downloadState
    [] OTHER -> downloadState

handlePrevious(downloadState) ==
  CASE downloadState.step = "decrypt" ->
         DownloadState("load", downloadState.encryptedData, 0)
    [] downloadState.step = "display" ->
         DownloadState("decrypt", downloadState.encryptedData, 0)
    [] OTHER -> downloadState

handleReset(downloadState) == DownloadState("load", 0, 0)

handleDataLoaded(downloadState, data) == DownloadState("load", data, 0)

\* current is the state of the screen when the handler runs, downloadState
\* the state the handler's closure captured.
handleDecrypted(current, downloadState, decryptedData) ==
  IF downloadState.step = "decrypt"
  THEN DownloadState("decrypt", downloadState.encryptedData, decryptedData)
  ELSE current

\* The lowest task that is idle.
FreeTask(tasks) == 
  IF \E t \in AppTasks : tasks[t].kind = "idle"
  THEN {CHOOSE t \in AppTasks : 
          tasks[t].kind = "idle" /\ \A u \in AppTasks : tasks[u].kind = "idle" => t <= u}
  ELSE {}

\* The navigation buttons.
HandleNext ==
  /\ download' = [download EXCEPT !.state = handleNext(download.state)]
  /\ UNCHANGED <<moduleVars, upload, hosting, catching, probe>>
HandlePrevious ==
  /\ download' = [download EXCEPT !.state = handlePrevious(download.state)]
  /\ UNCHANGED <<moduleVars, upload, hosting, catching, probe>>
HandleReset ==
  /\ download' = [download EXCEPT !.state = handleReset(download.state)]
  /\ UNCHANGED <<moduleVars, upload, hosting, catching, probe>>

\* LoadStep: downloadFromHosting / loadFromFileSystem start to load data.
StartLoad(data) ==
  /\ download.state.step = "load"
  /\ \E t \in FreeTask(download.tasks) :
       download' = [download EXCEPT !.tasks[t] = [kind |-> "load", data |-> data,
                                                   seen |-> download.state]]
  /\ UNCHANGED <<moduleVars, upload, hosting, catching, probe>>
\* The load ends: with data, onDataLoaded(data); with nothing or an error,
\* an alert at most.
FinishLoad(t, ok) ==
  /\ download.tasks[t].kind = "load"
  /\ download' = [state |-> IF ok
                            THEN handleDataLoaded(download.tasks[t].seen,
                                                  download.tasks[t].data)
                            ELSE download.state,
                  tasks |-> [download.tasks EXCEPT ![t] = NoTask]]
  /\ UNCHANGED <<moduleVars, upload, hosting, catching, probe>>

\* DecryptStep.handleDecrypt, up to its await, with a password typed in.
StartDecrypt ==
  /\ download.state.step = "decrypt"
  /\ \E t \in FreeTask(download.tasks) :
       download' = [download EXCEPT !.tasks[t] =
                      [kind |-> "decrypt", data |-> download.state.encryptedData,
                       seen |-> download.state]]
  /\ UNCHANGED <<moduleVars, upload, hosting, catching, probe>>
\* decryptDataWithPasswordAsync ends: onDecrypted(decryptedData), or the catch
\* block.  The decryption of the data of image d is d.
FinishDecrypt(t, ok) ==
  /\ download.tasks[t].kind = "decrypt"
  /\ download' = [state |-> IF ok
                            THEN handleDecrypted(download.state, download.tasks[t].seen,
                                                 download.tasks[t].data)
                            ELSE download.state,
                  tasks |-> [download.tasks EXCEPT ![t] = NoTask]]
  /\ UNCHANGED <<moduleVars, upload, hosting, catching, probe>>

LoadStarts == \E data \in DataIds : StartLoad(data)
LoadEnds == \E t \in AppTasks, ok \in BOOLEAN : FinishLoad(t, ok)
DecryptEnds == \E t \in AppTasks, ok \in BOOLEAN : FinishDecrypt(t, ok)

NextDownload ==
  \/ HandleNext \/ HandlePrevious \/ HandleReset
  \/ LoadStarts \/ LoadEnds \/ StartDecrypt \/ DecryptEnds

SpecDownload == InitApp /\ [][NextDownload]_vars

(***************************************************************************)
(* utils/result.tsx and utils/error.ts.  What a call does is an outcome:   *)
(* it returns a value, throws an error, or returns a promise that resolves *)
(* with a value or rejects with an error.                                  *)
(***************************************************************************)
Returns(value) == [kind |-> "returns", value |-> value]
Throws(error) == [kind |-> "throws", error |-> error]
Resolves(value) == [kind |-> "promise", settles |-> "resolves", value |-> value]
Rejects(error) == [kind |-> "promise", settles |-> "rejects", error |-> error]

\* What a block can throw: a string, an Error with a message, anything else.
StringError(text) == [type |-> "string", text |-> text]
ErrorOf(message) == [type |-> "Error", message |-> message]
OtherError == [type |-> "other"]
Messages == {"", "boom"}
Errors == {StringError(s) : s \in Messages} \cup {ErrorOf(s) : s \in Messages}
            \cup {OtherError}

NoMessage == [null |-> TRUE]
MessageOf(text) == [null |-> FALSE, text |-> text]
messageForException(e) ==
  CASE e.type = "string" -> MessageOf(e.text)
    [] e.type = "Error" -> MessageOf(e.message)
    [] OTHER -> NoMessage

ResultOk(value) == [success |-> TRUE, value |-> value]
ResultErr(error) ==
  [success |-> FALSE, error |-> error,
   reason |-> IF messageForException(error).null
              THEN "Unknown error"
              ELSE messageForException(error).text]

\* A try block without its catch.
runCatchingUncaught(block) ==
  CASE block.kind = "promise" /\ block.settles = "resolves" -> Resolves(ResultOk(block.value))
    [] block.kind = "promise" /\ block.settles = "rejects" -> Rejects(block.error)
    [] block.kind = "throws" -> Throws(block.error)
    [] OTHER -> Returns(ResultOk(block.value))

\* block is the outcome of block().
runCatching(block) ==
  CASE block.kind = "promise" /\ block.settles = "resolves" -> Resolves(ResultOk(block.value))
    [] block.kind = "promise" /\ block.settles = "rejects" -> Resolves(ResultErr(block.error))
    [] block.kind = "throws" -> Returns(ResultErr(block.error))
    [] OTHER -> Returns(ResultOk(block.value))

Blocks ==
  {Returns(v) : v \in DataIds} \cup {Throws(e) : e \in Errors}
    \cup {Resolves(v) : v \in DataIds} \cup {Rejects(e) : e \in Errors}

\* A caller calls runCatching(block); a promise it gets is pending.
CallRunCatching(block) ==
  /\ \E t \in FreeTask(catching), out \in {runCatching(block)} :
       catching' = [catching EXCEPT ![t] =
                      [kind |-> IF out.kind = "promise" THEN "pending" ELSE "done",
                       block |-> block, out |-> out]]
  /\ UNCHANGED <<moduleVars, download, upload, hosting, probe>>
\* The promise of the block settles, and with it the one runCatching returned.
SettleRunCatching(t) ==
  /\ catching[t].kind = "pending"
  /\ catching' = [catching EXCEPT ![t].kind = "done"]
  /\ UNCHANGED <<moduleVars, download, upload, hosting, probe>>
\* The caller is done with the result.
DropRunCatching(t) ==
  /\ catching[t].kind = "done"
  /\ catching' = [catching EXCEPT ![t] = NoTask]
  /\ UNCHANGED <<moduleVars, download, upload, hosting, probe>>

RunCatchingCalls == \E block \in Blocks : CallRunCatching(block)
RunCatchingSettles == \E t \in AppTasks : SettleRunCatching(t)
RunCatchingDrops == \E t \in AppTasks : DropRunCatching(t)
NextResult == RunCatchingCalls \/ RunCatchingSettles \/ RunCatchingDrops
SpecResult == InitApp /\ [][NextResult]_vars

(***************************************************************************)
(* The hosting context (context/app-context.tsx) and the upload endpoint   *)
(* (utils/tmpfiles.ts).                                                    *)
(***************************************************************************)
initialAppState == [status |-> "none"]
ImageUploaded(info, metadata) ==
  [status |-> "image_uploaded", info |-> info, metadata |-> metadata]
\* The ImageMetadata of image i.
ImageMetadata(i) == [width |-> i, height |-> i, filename |-> i]

\* What the endpoint does with a request: fetch rejects, the body is not
\* JSON, the body is a failure response, a success response without data, or
\* a success response with the URL of upload n.
FetchRejects == [kind |-> "fetch rejects"]
JsonRejects == [kind |-> "json rejects"]
UploadFailureResponse == [kind |-> "failure"]
UploadSuccessNoData == [kind |-> "success", data |-> FALSE]
UploadSuccessResponse(n) == [kind |-> "success", data |-> TRUE, n |-> n]
EndpointAnswers ==
  {FetchRejects, JsonRejects, UploadFailureResponse, UploadSuccessNoData}
    \cup {UploadSuccessResponse(n) : n \in DataIds}

isSuccessResponse(response) == response.kind = "success"
\* http://tmpfiles.org/n/name -> https://tmpfiles.org/dl/n/name
ResponseUrl(n, filename) == <<"http", "tmpfiles.org", n, filename>>
makeDownloadableUrl(responseUrl) ==
  <<"https", responseUrl[2], "dl", responseUrl[3], responseUrl[4]>>

uploadBlobAsync(blob, filename, answer) ==
  CASE answer.kind = "fetch rejects" -> Rejects(ErrorOf("Network request failed"))
    [] answer.kind = "json rejects" -> Rejects(ErrorOf("JSON Parse error"))
    [] ~isSuccessResponse(answer) ->
         Rejects(ErrorOf("Errror response from upload endpoint"))
    [] ~answer.data -> Rejects(ErrorOf("undefined is not an object"))
    [] OTHER ->
         Resolves([url |-> makeDownloadableUrl(ResponseUrl(answer.n, filename)),
                   webpageURL |-> ResponseUrl(answer.n, filename),
                   expires |-> "in one hour"])

UploadInfo(uploaded) ==
  [expires |-> uploaded.expires, webpageURL |-> uploaded.webpageURL,
   directURL |-> uploaded.url]

\* An uploadFile that announces the upload whatever the endpoint answers.
uploadFileOptimistic(appState, data, metadata, answer) ==
  LET uploaded == uploadBlobAsync(data, <<metadata.filename, ".dat">>, answer)
  IN [appState |-> ImageUploaded(IF uploaded.settles = "resolves"
                                 THEN UploadInfo(uploaded.value)
                                 ELSE [expires |-> "in one hour"], metadata),
      out |-> runCatching(IF uploaded.settles = "resolves"
                          THEN Resolves(UploadInfo(uploaded.value))
                          ELSE Rejects(uploaded.error))]

\* uploadFile from the answer of the endpoint on: the app state it leaves and
\* the promise it returned.
uploadFile(appState, data, metadata, answer) ==
  LET uploaded == uploadBlobAsync(data, <<metadata.filename, ".dat">>, answer)
  IN [appState |-> IF uploaded.settles = "resolves"
                   THEN ImageUploaded(UploadInfo(uploaded.value), metadata)
                   ELSE appState,
      out |-> runCatching(IF uploaded.settles = "resolves"
                          THEN Resolves(UploadInfo(uploaded.value))
                          ELSE Rejects(uploaded.error))]

\* hosting.uploadFile(data, metadata) up to the await of fetch.
StartUpload(data, metadata) ==
  /\ \E t \in FreeTask(hosting.tasks) :
       hosting' = [hosting EXCEPT !.tasks[t] =
                     [kind |-> "pending", data |-> data, metadata |-> metadata]]
  /\ UNCHANGED <<moduleVars, download, upload, catching, probe>>
\* The endpoint answers and uploadFile runs to its end.
UploadAnswers(t, answer) ==
  /\ hosting.tasks[t].kind = "pending"
  /\ \E done \in {uploadFile(hosting.appState, hosting.tasks[t].data,
                             hosting.tasks[t].metadata, answer)} :
       hosting' = [appState |-> done.appState,
                   tasks |-> [hosting.tasks EXCEPT ![t] =
                                [kind |-> "done", out |-> done.out]]]
  /\ UNCHANGED <<moduleVars, download, upload, catching, probe>>
\* The caller has read the Result.
DropUpload(t) ==
  /\ hosting.tasks[t].kind = "done"
  /\ hosting' = [hosting EXCEPT !.tasks[t] = NoTask]
  /\ UNCHANGED <<moduleVars, download, upload, catching, probe>>
ClearUpload ==
  /\ hosting' = [hosting EXCEPT !.appState = initialAppState]
  /\ UNCHANGED <<moduleVars, download, upload, catching, probe>>

\* The blob sent is the encrypted image i, with the metadata of image i.
UploadStarts == \E i \in DataIds : StartUpload(i, ImageMetadata(i))
UploadEnds == \E t \in AppTasks, answer \in EndpointAnswers : UploadAnswers(t, answer)
UploadDrops == \E t \in AppTasks : DropUpload(t)
NextHosting == UploadStarts \/ UploadEnds \/ UploadDrops \/ ClearUpload
SpecHosting == InitApp /\ [][NextHosting]_vars

(***************************************************************************)
(* The upload screen (app/(tabs)/upload.tsx).  Image i is 1..MaxData, its  *)
(* encryption is the blob i; no image and no blob are 0.  A button that is *)
(* loading takes no press.                                                 *)
(***************************************************************************)
\* pickImageAsync, loadFromFsAsync, pasteFromClipboardAsync, with an image
\* picked: setImage(...); setEncryptionStatus('not started').
SetImage(i) ==
  /\ upload' = [upload EXCEPT !.image = i, !.encryptionStatus = "not started"]
  /\ UNCHANGED <<moduleVars, download, hosting, catching, probe>>

\* encryptWithPassword up to its first await, with a password typed in.
StartEncrypt ==
  /\ upload.image # 0
  /\ upload.encryptionStatus # "in progress"
  /\ \E t \in FreeTask(upload.tasks) :
       upload' = [upload EXCEPT !.encryptionStatus = "in progress",
                                !.tasks[t] = [kind |-> "encrypt", image |-> upload.image]]
  /\ UNCHANGED <<moduleVars, download, hosting, catching, probe>>
\* encryptWithPassword after its awaits: the blob of the image read at the
\* press, or the catch block.
FinishEncrypt(t, ok) ==
  /\ upload.tasks[t].kind = "encrypt"
  /\ upload' = [image |-> upload.image,
                encryptedBlob |-> IF ok THEN upload.tasks[t].image
                                        ELSE upload.encryptedBlob,
                encryptionStatus |-> IF ok THEN "finished" ELSE "failed",
                tasks |-> [upload.tasks EXCEPT ![t] = NoTask]]
  /\ UNCHANGED <<moduleVars, download, hosting, catching, probe>>

\* setUploadInProgress(true) ... setUploadInProgress(false)
uploadInProgress == \E t \in AppTasks : hosting.tasks[t].kind # "idle"
\* uploadEncryptedImageAsync up to its await of hosting.uploadFile.
UploadEncryptedImage ==
  /\ upload.encryptedBlob # 0 /\ upload.image # 0
  /\ ~uploadInProgress
  /\ \E t \in FreeTask(hosting.tasks) :
       hosting' = [hosting EXCEPT !.tasks[t] =
                     [kind |-> "pending", data |-> upload.encryptedBlob,
                      metadata |-> ImageMetadata(upload.image)]]
  /\ UNCHANGED <<moduleVars, download, upload, catching, probe>>

ImageSelected == \E i \in DataIds : SetImage(i)
EncryptEnds == \E t \in AppTasks, ok \in BOOLEAN : FinishEncrypt(t, ok)
NextUpload ==
  \/ ImageSelected \/ StartEncrypt \/ EncryptEnds
  \/ UploadEncryptedImage \/ UploadEnds \/ UploadDrops
SpecUpload == InitApp /\ [][NextUpload]_vars

(***************************************************************************)
(* business-logic: inferFileExtensionFromMagicBytes.                       *)
(***************************************************************************)
\* MAGIC_BYTES, in the order of its keys.
MAGIC_BYTES ==
  << [extension |-> ".png", magic_bytes |-> <<137, 80, 78, 71, 13, 10, 26, 10>>],
     [extension |-> ".jpg", magic_bytes |-> <<255, 216, 255>>] >>

\* Uint8Array.prototype.slice(0, end): the first end elements, or all of them.
SliceTo(imageData, end) ==
  [i \in 1..(IF end < Len(imageData) THEN end ELSE Len(imageData)) |-> imageData[i]]
\* slice(0, magic_bytes.length).every((byte, i) => byte === magic_bytes[i])
bytesMatch(imageData, magic_bytes) ==
  \A i \in 1..Len(SliceTo(imageData, Len(magic_bytes))) :
    SliceTo(imageData, Len(magic_bytes))[i] = magic_bytes[i]

RECURSIVE inferFrom(_, _)
inferFrom(imageData, k) ==
  IF k > Len(MAGIC_BYTES) THEN "null"
  ELSE IF bytesMatch(imageData, MAGIC_BYTES[k].magic_bytes) THEN MAGIC_BYTES[k].extension
  ELSE inferFrom(imageData, k + 1)
inferFileExtensionFromMagicBytes(imageData) == inferFrom(imageData, 1)

\* The inputs: the signatures, what begins them, and these followed by a
\* byte or with one byte replaced.
OtherBytes == {0, 255}
Replaced(s) == {[s EXCEPT ![j] = b] : j \in 1..Len(s), b \in OtherBytes}
MagicInputs ==
  LET prefixes == UNION {{SliceTo(m.magic_bytes, n) : n \in 0..Len(m.magic_bytes)} :
                           m \in {MAGIC_BYTES[k] : k \in 1..Len(MAGIC_BYTES)}}
      longer == prefixes \cup {Append(s, b) : s \in prefixes, b \in OtherBytes}
  IN longer \cup UNION {Replaced(s) : s \in longer}

InferFileExtension(imageData) ==
  /\ probe' = [called |-> TRUE, imageData |-> imageData,
               extension |-> inferFileExtensionFromMagicBytes(imageData)]
  /\ UNCHANGED <<moduleVars, download, upload, hosting, catching>>
NextMagic == \E imageData \in MagicInputs : InferFileExtension(imageData)
SpecMagic == InitApp /\ [][NextMagic]_vars

(***************************************************************************)
(* Properties.                                                             *)
(***************************************************************************)
\* What the caller of decryptAsync observes.
Observed == [ok |-> result.ok, error |-> result.error, bytes |-> result.bytes]
AuthenticationFailed ==
  [ok |-> FALSE, error |-> "AuthenticationFailure", bytes |-> <<>>]

\* C1 -- Round trip: with a valid key k, encrypting any plaintext p (the
\* empty one included) with the default options succeeds, and decrypting the
\* container with k and no additional data returns exactly p.
C1_RoundTrip ==
  /\ result.op = "encryptAsync" => result.ok
  /\ (result.op = "decryptAsync" /\ origin.src = "encrypt" /\ result.key = enc.key)
       => (result.ok /\ result.bytes = enc.p)

\* C4 -- Key binding: decrypting encrypt(p, k1) with a valid key k2 # k1
\* fails with the authentication failure.
C4_KeyBinding ==
  (result.op = "decryptAsync" /\ origin.src = "encrypt" /\ result.key # enc.key)
    => Observed = AuthenticationFailed

\* C4 witness: a container encrypted with one key was decrypted with another
\* and the authentication failed.
C4_Witness ==
  /\ result.op = "decryptAsync"
  /\ origin.src = "encrypt"
  /\ result.key # enc.key
  /\ Len(result.key) = Len(enc.key)
  /\ ~result.ok

\* C8 -- Key length validation: importing raw bytes succeeds exactly for 16,
\* 24 or 32 bytes and then gives a key of exactly those bytes; for every
\* other length it fails with the invalid-key-length error and makes no key.
C8_KeyLengthValidation ==
  [][\A input \in KeyInputs :
       ImportKey(input) =>
         IF Len(Content(input)) \in {16, 24, 32}
         THEN result'.ok /\ key' = KeyOf(Content(input))
         ELSE ~result'.ok /\ result'.error = "InvalidKeyLength" /\ key' = key]_vars

\* C8 witness: 33 bytes were refused while the caller held a key, and 32
\* bytes of a longer buffer were accepted as they are.
C8_Witness ==
  /\ result.op = "importKey"
  /\ ~result.ok
  /\ Len(result.arg) = 33
  /\ key.present
  /\ Len(key.bytes) = 32

\* The causes of a tag that does not verify.
WrongKey == result.key # enc.key
WrongAad == result.aad # enc.aad
Modified(region) == origin.src = "fromCombined" /\ origin.flip = region

\* C2 -- Tamper detection: when one bit of combined() was flipped, in the
\* nonce, the ciphertext or the tag, decrypting the container rebuilt from
\* the flipped bytes with the encryption key fails with the authentication
\* failure and returns no plaintext.
C2_TamperDetection ==
  (/\ result.op = "decryptAsync"
   /\ result.key = enc.key
   /\ \E region \in {"nonce", "ciphertext", "tag"} : Modified(region))
    => Observed = AuthenticationFailed

\* C2 witness: a container whose ciphertext had a bit flipped in transit was
\* rebuilt and decrypted with the right key and no additional data, and failed.
C2_Witness ==
  /\ result.op = "decryptAsync"
  /\ result.key = enc.key
  /\ result.aad = enc.aad
  /\ Modified("ciphertext")
  /\ ~result.ok

\* C9 -- Single failure kind: a decryption that fails on the tag shows the
\* caller the same outcome whether the key was wrong, the additional data
\* was wrong, or the nonce, the ciphertext or the tag was modified.
C9_SingleFailureKind ==
  (/\ result.op = "decryptAsync"
   /\ ~result.ok
   /\ \/ WrongKey
      \/ WrongAad
      \/ \E region \in {"nonce", "ciphertext", "tag"} : Modified(region))
    => Observed = AuthenticationFailed

\* C9 witness: the only cause of the failure was a modified tag.
C9_Witness ==
  /\ result.op = "decryptAsync"
  /\ ~result.ok
  /\ ~WrongKey
  /\ ~WrongAad
  /\ Modified("tag")

\* C10 -- No partial plaintext: a decryption that fails gives the caller no
\* plaintext bytes, and a decryption gives a plaintext only when the tag
\* verified: right key, right additional data, unmodified container.
C10_NoPartialPlaintext ==
  result.op = "decryptAsync" =>
    /\ ~result.ok => result.bytes = <<>>
    /\ result.ok => (~WrongKey /\ ~WrongAad /\ origin.flip = "none")

\* C10 witness: the decryption of a container of a non-empty plaintext failed.
C10_Witness ==
  /\ result.op = "decryptAsync"
  /\ ~result.ok
  /\ enc.p # <<>>
  /\ result.bytes = <<>>

\* C3 -- AAD binding: a container encrypted under additional data aad1 and
\* decrypted with the same key under different additional data aad2 (either
\* may be empty or absent, both may be views of one buffer) fails with the
\* authentication failure.
C3_AadBinding ==
  (result.op = "decryptAsync" /\ origin.src = "encrypt" /\ ~WrongKey /\ WrongAad)
    => Observed = AuthenticationFailed

\* C5 -- Transport round trip: encrypting with a nonce length n and a tag
\* length t succeeds; rebuilding the container from its combined bytes with
\* the framing (n, t) succeeds; decrypting the rebuilt container with the key
\* returns the plaintext, and the tag that decryption verifies has the
\* container's recorded length.
C5_TransportRoundTrip ==
  LET chosen == Config(enc.options.nonce.length, enc.options.tagLength.length)
      agreed == Config(result.ivLength, result.tagLength) = chosen
  IN /\ result.op = "encryptAsync" => result.ok
     /\ (result.op = "fromCombined" /\ wire.flip = "none" /\ agreed) => result.ok
     /\ (result.op = "decryptAsync" /\ origin.src = "fromCombined"
           /\ origin.config = chosen /\ ~WrongKey)
          => /\ result.ok
             /\ result.bytes = enc.p
             /\ Len(result.bytes) =
                  Len(sealed.content) - sealed.ivLength - sealed.tagLength

\* C6 -- Component/combined equivalence: a container built from a nonce, a
\* non-empty ciphertext and a tag has combined() = nonce || ciphertext ||
\* tag, and the container rebuilt from those bytes with ivLength = |nonce|
\* and tagLength = |tag| reads the same through every accessor.
C6_ComponentCombinedEquivalence ==
  /\ (result.op = "combined" /\ origin.src = "fromNonceAndCiphertext")
       => /\ result.ok
          /\ result.bytes = origin.parts.iv \o origin.parts.ciphertext \o origin.parts.tag
  /\ (result.op = "fromCombined" /\ wire.src = "fromNonceAndCiphertext")
       => /\ result.ok
          /\ Accessors(backend, sealed) = Accessors(backend, wire.from)

\* C7 -- Container size rejection: fromCombined of a buffer of at most
\* nonceLength + tagLength bytes fails with the invalid-container-size error
\* and constructs no SealedData.
C7_ContainerSizeRejection ==
  (result.op = "fromCombined" /\ Len(result.arg) <= result.ivLength + result.tagLength)
    => (~result.ok /\ result.error = "InvalidContainerSize" /\ ~sealed.present)

\* C11 -- Key bytes are stable and export is a copy: whatever the caller
\* does with a key (bytes(), encoded(), encrypt, decrypt) and writes into an
\* array bytes() returned, the key keeps the bytes it was made of, every
\* bytes() call returns them, and a returned array is never the key's storage.
C11_KeyBytesStable ==
  /\ key.present => key.bytes = held.made
  /\ held.of = "key" => ~held.alias
  /\ result.op = "bytes" => (result.ok /\ result.bytes = held.made)
  /\ (result.op = "decryptAsync" /\ result.ok) => result.key = held.made

\* C11 witness: bytes() was called after the caller had written into an
\* array of an earlier bytes() call, and it returned the key's bytes.
C11_Witness ==
  /\ result.op = "bytes"
  /\ result.ok
  /\ held.wrote
  /\ result.bytes = held.made
  /\ Len(result.bytes) \in {16, 32}

\* C12 -- SealedData is immutable after construction: whatever accessors
\* the caller calls and whatever it writes into the arrays they returned,
\* every accessor of the instance keeps returning what it returned when the
\* instance was first read.
C12_SealedDataImmutable ==
  held.first.read => Accessors(backend, sealed) = held.first.got

\* The container the last successful encryptAsync returned is the caller's.
Encrypted == origin.src = "encrypt" /\ enc.present /\ sealed.present

\* C13 -- Caller-supplied nonce is used exactly: encrypting with the nonce
\* option {bytes: b} succeeds and returns a container whose iv() is b and
\* whose ivSize is |b|, b being the bytes of the view the caller passed, and
\* decrypting the container with the key returns the plaintext.
C13_CallerNonceUsed ==
  (Encrypted /\ enc.options.nonce.kind = "bytes") =>
    LET b == Content(enc.options.nonce.bytes)
    IN /\ ivOf(backend, sealed) = ResultOk(b)
       /\ sealed.ivLength = Len(b)
       /\ (result.op = "decryptAsync" /\ ~WrongKey)
            => (result.ok /\ result.bytes = enc.p)

\* C14 -- Configurable tag length: encrypting with the option tagLength t
\* returns a container with tagSize = t and a tag() of t bytes, t being 16
\* when the option is absent, and the container decrypts to the plaintext.
C14_ConfigurableTagLength ==
  Encrypted =>
    LET t == IF enc.options.tagLength.given
             THEN enc.options.tagLength.length ELSE TAG_LENGTH
        tag == tagOf(backend, sealed)
    IN /\ sealed.tagLength = t
       /\ tag.ok
       /\ Len(tag.value) = t
       /\ (result.op = "decryptAsync" /\ ~WrongKey)
            => (result.ok /\ result.bytes = enc.p)

\* C15 -- Wire framing of encrypt output: encrypting a plaintext p with the
\* nonce option {length: n} (n = 12 when absent) returns a container with
\* ivSize = n, a ciphertext() of |p| bytes and combinedSize = ivSize + |p| +
\* tagSize, whose bytes are the nonce, then the ciphertext of p, then the tag.
C15_WireFraming ==
  (Encrypted /\ enc.options.nonce.kind # "bytes") =>
    LET n == IF enc.options.nonce.kind = "length"
             THEN enc.options.nonce.length ELSE IV_LENGTH
        ciphertext == ciphertextOf(backend, sealed, FALSE)
        iv == Take(sealed.content, n)
    IN /\ sealed.ivLength = n
       /\ ciphertext.ok
       /\ Len(ciphertext.value) = Len(enc.p)
       /\ Len(sealed.content) = sealed.ivLength + Len(enc.p) + sealed.tagLength
       /\ sealed.content =
            iv \o GcmSeal(enc.key, iv, enc.aad, enc.p, sealed.tagLength)

C17_ContainerSizeInvariant ==
  sealed.present => Len(sealed.content) > sealed.ivLength + sealed.tagLength

\* C18 -- Partition of a combined buffer: for the bytes buf of the input (of
\* the view, when the input is a view), of length L > n + t,
\* fromCombined(buf, {ivLength: n, tagLength: t}) succeeds and the container
\* has iv() = buf[0, n), ciphertext() = buf[n, L - t), tag() = buf[L - t, L)
\* and combined() = buf.
C18_CombinedPartition ==
  LET buf == result.arg
      n == result.ivLength
      t == result.tagLength
      L == Len(buf)
  IN (result.op = "fromCombined" /\ L > n + t) =>
       /\ result.ok
       /\ ivOf(backend, sealed) = ResultOk(SubSeq(buf, 1, n))
       /\ ciphertextOf(backend, sealed, FALSE) = ResultOk(SubSeq(buf, n + 1, L - t))
       /\ tagOf(backend, sealed) = ResultOk(SubSeq(buf, L - t + 1, L))
       /\ combined(backend, sealed) = ResultOk(buf)

\* C19 -- Ciphertext-with-tag accessor: for every SealedData,
\* ciphertext({withTag: true}) is ciphertext() followed by tag(), iv()
\* followed by ciphertext({withTag: true}) is combined(), and ciphertext()
\* has no byte of the tag.
C19_CiphertextWithTag ==
  sealed.present =>
    LET a == Accessors(backend, sealed)
    IN /\ a.iv.ok /\ a.ciphertext.ok /\ a.ciphertextWithTag.ok /\ a.tag.ok
       /\ a.combined.ok
       /\ a.ciphertextWithTag.value = a.ciphertext.value \o a.tag.value
       /\ a.iv.value \o a.ciphertextWithTag.value = a.combined.value
       /\ Len(a.ciphertext.value) = a.combinedSize - a.ivSize - a.tagSize

\* C20 -- Two-argument component form equals slicing:
\* fromNonceAndCiphertext(nonce, ciphertextWithTag, t), t being 16 when
\* omitted, records tagSize = t, and fromNonceAndCiphertext(nonce,
\* ciphertextWithTag without its last t bytes, its last t bytes) gives a
\* container with the same sizes and the same accessor outputs.
C20_TwoArgumentFormIsSlicing ==
  /\ (pair.present /\ pair.out.ok) => pair.out.value.tagLength = pair.tagLength
  /\ (pair.present /\ result.op = "fromNonceAndCiphertext" /\ result.tagLength > 0)
       => /\ result.ok = pair.out.ok
          /\ result.ok => Accessors(backend, sealed) = Accessors(backend, pair.out.value)

\* C21 -- Size accessors agree with content: for every SealedData,
\* ivSize = |iv()|, tagSize = |tag()| and combinedSize = |combined()| =
\* ivSize + |ciphertext()| + tagSize; a container built from separate
\* components records ivSize = |nonce| and tagSize = |tag|, and one built by
\* fromCombined records the ivLength and tagLength it was given.
C21_SizeAccessorsAgree ==
  sealed.present =>
    LET a == Accessors(backend, sealed)
    IN /\ a.iv.ok /\ a.tag.ok /\ a.combined.ok /\ a.ciphertext.ok
       /\ a.ivSize = Len(a.iv.value)
       /\ a.tagSize = Len(a.tag.value)
       /\ a.combinedSize = Len(a.combined.value)
       /\ a.combinedSize = a.ivSize + Len(a.ciphertext.value) + a.tagSize
       /\ (result.ok /\ result.op = "fromNonceAndCiphertext" /\ result.tagLength > 0)
            => (a.ivSize = result.ivLength /\ a.tagSize = result.tagLength)
       /\ (result.ok /\ result.op = "fromCombined")
            => (a.ivSize = result.ivLength /\ a.tagSize = result.tagLength)

\* C22 -- Key size invariant: for every key generateKey(size) or
\* importKey(bytes) returned, the size property is one of 128, 192, 256 and
\* is 8 times the length of bytes(); generateKey() yields a 256-bit key and
\* generateKey(size) a key of size / 8 bytes.
C22_KeySizeInvariant ==
  key.present =>
    /\ sizeOf(backend, key) \in KeySizes
    /\ bytesOf(backend, key).ok
    /\ sizeOf(backend, key) = 8 * Len(bytesOf(backend, key).value.bytes)
    /\ (result.op = "generateKey" /\ result.ok) =>
          Len(bytesOf(backend, key).value.bytes) =
            (IF result.arg.given THEN result.arg.size ELSE 256) \div 8

\* C23 -- Key import/export round trip: for every b of 16, 24 or 32 bytes,
\* importKey(b).bytes() is b byte for byte, and a key imported from the
\* exported bytes of a key k is interchangeable with k: either decrypts what
\* the other encrypted.
C23_KeyRoundTrip ==
  /\ result.op = "importKey.bytes" => (result.ok /\ result.bytes = result.arg)
  /\ (result.op \in {"importKey.decryptAsync", "decryptAsync"} /\ origin.src = "encrypt")
       => (result.ok /\ result.bytes = enc.p)

C26_ResetVersusDecryption ==
  [][\A t \in AppTasks, ok \in BOOLEAN :
       (FinishDecrypt(t, ok) /\ download.state.step # "decrypt")
         => download'.state = download.state]_vars

\* C27 -- Download step machine: whatever the sequence of Next, Previous,
\* Reset, data-loaded and decrypted events, step 'decrypt' or 'display' has
\* encryptedData, step 'display' has decryptedData, Next moves only from load
\* to decrypt with data loaded and from decrypt to display with data
\* decrypted, Previous moves one step back and drops decryptedData, and Reset
\* gives {step: 'load', encryptedData: null}.
C27_StepMachineInvariant ==
  /\ [](download.state.step \in {"decrypt", "display"} => download.state.encryptedData # 0)
  /\ [](download.state.step = "display" => download.state.decryptedData # 0)
  /\ [][HandleNext =>
          \/ download'.state = download.state
          \/ /\ download.state.step = "load"
             /\ download.state.encryptedData # 0
             /\ download'.state.step = "decrypt"
             /\ download'.state.encryptedData = download.state.encryptedData
          \/ /\ download.state.step = "decrypt"
             /\ download.state.decryptedData # 0
             /\ download'.state = [download.state EXCEPT !.step = "display"]]_vars
  /\ [][(HandleNext /\ ~canGoNext(download.state))
          => download'.state = download.state]_vars
  /\ [][HandlePrevious =>
          \/ download.state.step = "load" /\ download'.state = download.state
          \/ /\ download.state.step = "decrypt"
             /\ download'.state = DownloadState("load", download.state.encryptedData, 0)
          \/ /\ download.state.step = "display"
             /\ download'.state =
                  DownloadState("decrypt", download.state.encryptedData, 0)]_vars
  /\ [][HandleReset => download'.state = DownloadState("load", 0, 0)]_vars

\* C27 witness: the screen shows a decrypted image, with a load still in
\* flight.
C27_Witness ==
  /\ download.state.step = "display"
  /\ download.state.decryptedData # 0
  /\ download.state.encryptedData = download.state.decryptedData
  /\ \E t \in AppTasks : download.tasks[t].kind = "load"

\* C29 -- runCatching never throws: runCatching returns ResultOk(value) when the
\* block returns value, a promise resolving to ResultOk(value) when the block returns
\* a promise that resolves to value, ResultErr(e) when the block throws e, and a
\* promise resolving to ResultErr(e) when the block's promise rejects with e; the Err
\* has reason = the error's message, or the string itself, or 'Unknown error'
\* when it is neither; runCatching never throws nor returns a promise that
\* rejects.
C29_RunCatchingNeverThrows ==
  \A t \in AppTasks :
    catching[t].kind # "idle" =>
      LET block == catching[t].block
          out == catching[t].out
          res == out.value
      IN /\ out.kind # "throws"
         /\ out.kind = "promise" => out.settles = "resolves"
         /\ (out.kind = "promise") = (block.kind = "promise")
         /\ block.kind = "returns" \/ (block.kind = "promise" /\ block.settles = "resolves")
              => res = [success |-> TRUE, value |-> block.value]
         /\ block.kind = "throws" \/ (block.kind = "promise" /\ block.settles = "rejects")
              => /\ ~res.success
                 /\ res.error = block.error
                 /\ res.reason =
                      (CASE block.error.type = "string" -> block.error.text
                         [] block.error.type = "Error" -> block.error.message
                         [] OTHER -> "Unknown error")

\* C29 witness: a promise that rejected with something that is neither a
\* string nor an Error has become a resolved Err, while a block that threw an
\* Error with an empty message has given an Err at once.
C29_Witness ==
  /\ \E t \in AppTasks :
       /\ catching[t].kind = "done"
       /\ catching[t].block = Rejects(OtherError)
       /\ catching[t].out = Resolves([success |-> FALSE, error |-> OtherError,
                                      reason |-> "Unknown error"])
  /\ \E t \in AppTasks :
       /\ catching[t].kind = "done"
       /\ catching[t].block = Throws(ErrorOf(""))
       /\ catching[t].out.value.reason = ""

\* C28 -- Upload state changes only on success: uploadFile sets the hosting
\* state to 'image_uploaded', with the URL and expiry returned and the metadata
\* given, only after uploadBlobAsync has returned a success response; when the
\* upload throws or the endpoint answers with a failure, uploadFile resolves to
\* a failed Result, never rejects, and leaves the hosting state unchanged.
C28_UploadStateOnlyOnSuccess ==
  /\ [][\A t \in AppTasks, answer \in EndpointAnswers :
          UploadAnswers(t, answer) =>
            LET out == hosting'.tasks[t].out
                metadata == hosting.tasks[t].metadata
                url == ResponseUrl(answer.n, <<metadata.filename, ".dat">>)
            IN /\ out.kind = "promise" /\ out.settles = "resolves"
               /\ IF answer.kind = "success" /\ answer.data
                  THEN /\ out.value.success
                       /\ out.value.value.webpageURL = url
                       /\ hosting'.appState =
                            ImageUploaded([expires |-> "in one hour", webpageURL |-> url,
                                           directURL |-> makeDownloadableUrl(url)],
                                          metadata)
                  ELSE /\ ~out.value.success
                       /\ hosting'.appState = hosting.appState]_vars
  /\ [][(hosting'.appState # hosting.appState
           /\ hosting'.appState.status = "image_uploaded")
          => \E t \in AppTasks, n \in DataIds :
               UploadAnswers(t, UploadSuccessResponse(n))]_vars

\* C28 witness: an upload has failed with the endpoint's failure response
\* while the state announces an earlier upload, and another is in flight.
C28_Witness ==
  /\ hosting.appState.status = "image_uploaded"
  /\ hosting.appState.metadata = ImageMetadata(1)
  /\ \E t \in AppTasks :
       /\ hosting.tasks[t].kind = "done"
       /\ ~hosting.tasks[t].out.value.success
       /\ hosting.tasks[t].out.value.reason = "Errror response from upload endpoint"
  /\ \E t \in AppTasks : hosting.tasks[t].kind = "pending"

\* C25 -- Upload screen consistency: in every state of the upload screen an
\* encrypted blob that can be uploaded or saved is the encryption of the image
\* selected, and uploadEncryptedImageAsync never sends the blob of one image
\* with the metadata of another, also after another image was selected and
\* when an encryption started for an earlier image ends later.
C25_UploadScreenConsistency ==
  /\ (upload.encryptedBlob # 0 /\ upload.image # 0)
       => upload.encryptedBlob = upload.image
  /\ \A t \in AppTasks :
       hosting.tasks[t].kind = "pending"
         => hosting.tasks[t].metadata = ImageMetadata(hosting.tasks[t].data)

\* C30 -- Magic-byte extension inference: inferFileExtensionFromMagicBytes
\* returns '.png' only when the data begins with the 8 bytes 89 50 4E 47 0D 0A
\* 1A 0A, '.jpg' only when it begins with FF D8 FF, and null for every other
\* input, the empty one and those shorter than the signature they begin
\* included.
C30_MagicByteInference ==
  probe.called =>
    LET begins(magic) ==
          /\ Len(probe.imageData) >= Len(magic)
          /\ \A i \in 1..Len(magic) : probe.imageData[i] = magic[i]
        png == begins(<<137, 80, 78, 71, 13, 10, 26, 10>>)
        jpg == begins(<<255, 216, 255>>)
    IN /\ probe.extension = ".png" => png
       /\ probe.extension = ".jpg" => jpg
       /\ (~png /\ ~jpg) => probe.extension = "null"

====
